---- MODULE Spec2Model ----
(***************************************************************************)
(* FabricCapacityManager (popup.js): token lifecycle, resilient API client, *)
(* capacity discovery and the start/stop/resize handlers, as a state       *)
(* machine.  JavaScript runs one task at a time: a task runs from one      *)
(* suspension point (storage callback, fetch, launchWebAuthFlow, timer) to  *)
(* the next without interruption.  `run` is the call stack of the task that *)
(* is executing, `tasks` the call stacks of the suspended ones; the top     *)
(* frame of a suspended stack is the browser operation it waits for.        *)
(* Time is counted in minutes.                                              *)
(***************************************************************************)
EXTENDS Integers, Sequences, FiniteSets, TLC

VARIABLES
    app,    \* the manager object: accessToken, capacities, initialLoadComplete,
            \* and whether the interval of startTokenRefreshTimer is set
    ui,     \* the DOM controls the manager reads and writes
    store,  \* chrome.storage.local: accessToken, tokenExpiry, sessionInfo
    now,    \* Date.now(), in minutes
    run,    \* call stack of the executing task, <<>> when the event loop is idle
    ret,    \* value or exception handed to the top frame of run
    tasks,  \* call stacks of the suspended tasks
    obs,    \* what the step just taken did (bookkeeping for the properties)
    ghost   \* history bookkeeping for the properties

vars == <<app, ui, store, now, run, ret, tasks, obs, ghost>>

-----------------------------------------------------------------------------
(* Bounds of the model *)

MaxTokens == 3
TokenLen == 101
MaxTime == 4
MaxNonce == 2
MaxTasks == 2
\* the clicks of one run that start a handler
MaxClicks == 2
\* the 401 answers of one run
MaxUnauthorized == 1

(* Program constants *)

hashChars == 100
bufferTime == 2
defaultExpiry == 60

NoToken == 0
Tokens == 1..MaxTokens
Nonces == 1..MaxNonce

-----------------------------------------------------------------------------
(* 32-bit integers as <<high, low>> 16-bit halves (values exceed TLC's ints) *)

Half == 65536

Shl5(h) ==
    LET lo == h[2] * 32
    IN  << ((h[1] * 32) + (lo \div Half)) % Half, lo % Half >>

Sub32(a, b) ==
    LET lo == a[2] - b[2]
        borrow == IF lo < 0 THEN 1 ELSE 0
    IN  << ((a[1] - b[1]) - borrow) % Half, lo % Half >>

Add32(a, c) ==
    LET lo == a[2] + c
    IN  << (a[1] + (lo \div Half)) % Half, lo % Half >>

Abs32(a) == IF a[1] >= Half \div 2 THEN Sub32(<<0, 0>>, a) ELSE a

\* the characters of token t: the tokens share their first 99 characters
TokenChars(t) ==
    [i \in 1..TokenLen |->
        IF i < hashChars THEN 97
        ELSE IF i = hashChars THEN 97 + (((t - 1) \div 2) % 2)
        ELSE 97 + ((t - 1) % 2)]

Min(a, b) == IF a < b THEN a ELSE b

RECURSIVE hashLoop(_, _, _)
hashLoop(chars, i, hash) ==
    \* (the test on hash[1] is never true: it makes TLC evaluate hash before
    \* it recurses)
    IF i > Min(Len(chars), hashChars) \/ hash[1] < 0 THEN hash
    ELSE hashLoop(chars, i + 1, Add32(Sub32(Shl5(hash), hash), chars[i]))

generateTokenHash(chars) ==
    IF Len(chars) = 0 THEN <<0, 0>>
    ELSE Abs32(hashLoop(chars, 1, <<0, 0>>))

TokenHash(t) == generateTokenHash(TokenChars(t))

-----------------------------------------------------------------------------
(* chrome.storage.local *)

NoSession == <<>>
EmptyStore == [accessToken |-> NoToken, tokenExpiry |-> 0, sessionInfo |-> NoSession]

\* cacheToken's storage.set argument
cacheEntry(token, expiresIn, t) ==
    [accessToken |-> token,
     tokenExpiry |-> t + (IF expiresIn = 0 THEN defaultExpiry ELSE expiresIn),
     sessionInfo |-> <<TokenHash(token)>>]

\* the storage.get callback of getCachedToken, on the items read and the time
getCachedTokenNoBuffer(snap, lastError, t) ==
    IF lastError THEN NoToken
    ELSE IF snap.accessToken = NoToken \/ snap.tokenExpiry = 0 THEN NoToken
    ELSE IF snap.sessionInfo # NoSession
            /\ snap.sessionInfo[1] # TokenHash(snap.accessToken) THEN NoToken
    ELSE IF t >= snap.tokenExpiry THEN NoToken
    ELSE snap.accessToken

getCachedToken(snap, lastError, t) ==
    IF lastError THEN NoToken
    ELSE IF snap.accessToken = NoToken \/ snap.tokenExpiry = 0 THEN NoToken
    ELSE IF snap.sessionInfo # NoSession
            /\ snap.sessionInfo[1] # TokenHash(snap.accessToken) THEN NoToken
    ELSE IF t >= snap.tokenExpiry - bufferTime THEN NoToken
    ELSE snap.accessToken

-----------------------------------------------------------------------------
(* The task machinery *)

NoRet == [k |-> "none", v |-> 0]
Val(v) == [k |-> "val", v |-> v]
\* status: the HTTP status of a refused request, StateMismatch, 0 otherwise
Exc(status) == [k |-> "exc", v |-> status]

NoObs == [op |-> "none"]

Top(stk) == stk[Len(stk)]
Pop(stk) == SubSeq(stk, 1, Len(stk) - 1)
ReplaceTop(stk, f) == Append(Pop(stk), f)

Idle == run = <<>>
At(fn, pc) == run # <<>> /\ Top(run).fn = fn /\ Top(run).pc = pc

RemoveAt(seq, i) == SubSeq(seq, 1, i - 1) \o SubSeq(seq, i + 1, Len(seq))

\* the running task calls browser operation `leaf` and waits for it, to go on at pc
Await(pc, leaf) ==
    /\ tasks' = Append(tasks, Append(ReplaceTop(run, [Top(run) EXCEPT !.pc = pc]), leaf))
    /\ run' = <<>>
    /\ ret' = NoRet

\* as Await, with the frame's locals changed to f
AwaitAs(f, leaf) ==
    /\ tasks' = Append(tasks, Append(ReplaceTop(run, f), leaf))
    /\ run' = <<>>
    /\ ret' = NoRet

\* the running task calls an async function of the manager: its entry runs next
Call(f, callee) ==
    /\ run' = Append(ReplaceTop(run, f), callee)
    /\ ret' = NoRet
    /\ tasks' = tasks

\* the running function returns r (a value or an exception) to its caller
Return(r) ==
    /\ run' = Pop(run)
    /\ ret' = IF Len(run) = 1 THEN NoRet ELSE r
    /\ tasks' = tasks

\* the browser completes what suspended task i waits for, with result r
Resume(i, r) ==
    /\ Idle
    /\ run' = Pop(tasks[i])
    /\ ret' = r
    /\ tasks' = RemoveAt(tasks, i)

Waiting(fn) == {i \in 1..Len(tasks) : Top(tasks[i]).fn = fn}

\* every call stack: the suspended tasks, then the running one
Stacks == tasks \o (IF run = <<>> THEN <<>> ELSE <<run>>)

\* the suspended tasks that began as a call of fn
Rooted(fn) == {i \in 1..Len(tasks) : tasks[i][1].fn = fn}

-----------------------------------------------------------------------------
(* Identity provider: launchWebAuthFlow and extractTokenFromUrl *)

\* a response of launchWebAuthFlow: kind "lastError", "none" (no response URL) or
\* "url", whose fragment carries state, error, access_token and expires_in
\* (0: parameter absent)
AuthFailures ==
    {[kind |-> "lastError", state |-> 0, error |-> FALSE, accessToken |-> NoToken, expiresIn |-> 0],
     [kind |-> "none", state |-> 0, error |-> FALSE, accessToken |-> NoToken, expiresIn |-> 0]}
    \cup [kind : {"url"}, state : Nonces, error : {TRUE}, accessToken : {NoToken}, expiresIn : {0}]
    \cup [kind : {"url"}, state : Nonces, error : {FALSE}, accessToken : {NoToken}, expiresIn : {0}]

AuthGrants(toks, lifetimes) ==
    [kind : {"url"}, state : Nonces, error : {FALSE}, accessToken : toks, expiresIn : lifetimes]

TokenInfo(token, expiresIn) == [accessToken |-> token, expiresIn |-> expiresIn]

\* the error value of 'State parameter mismatch - possible CSRF attack'
StateMismatch == -1

\* (variant) the echoed state is not compared
extractTokenFromUrlNoState(r, expectedState) ==
    IF r.error THEN Exc(0)
    ELSE IF r.accessToken = NoToken THEN Exc(0)
    ELSE Val(TokenInfo(r.accessToken, IF r.expiresIn = 0 THEN defaultExpiry ELSE r.expiresIn))

extractTokenFromUrl(r, expectedState) ==
    IF r.state # expectedState THEN Exc(StateMismatch)
    ELSE IF r.error THEN Exc(0)
    ELSE IF r.accessToken = NoToken THEN Exc(0)
    ELSE Val(TokenInfo(r.accessToken, IF r.expiresIn = 0 THEN defaultExpiry ELSE r.expiresIn))

\* the launchWebAuthFlow callback of attemptOAuth2WithScope / attemptSilentAuthWithScope
attemptCallback(r, state) ==
    IF r.kind = "lastError" THEN Exc(0)
    ELSE IF r.kind = "none" THEN Exc(0)
    ELSE extractTokenFromUrl(r, state)

LaunchFrame(interactive, scope, state) ==
    [fn |-> "launchWebAuthFlow", interactive |-> interactive, scope |-> scope, state |-> state]

\* logError, n times: ghost.errors is the number of ERROR entries the log area
\* has got from the failure that is being handed up the call chain
logError(n) == [ghost EXCEPT !.errors = @ + n]

\* a failure has reached the catch that ends it, having left n ERROR entries
Failed(operation, n) == [op |-> "failed", operation |-> operation, errors |-> n]

\* the provider answers the authorization request of suspended task i with r
\* (attemptOAuth2WithScope logs a failure, attemptSilentAuthWithScope does not)
launchWebAuthFlow_callback(i, r) ==
    /\ i \in Waiting("launchWebAuthFlow")
    /\ Resume(i, attemptCallback(r, Top(tasks[i]).state))
    /\ obs' = [op |-> "auth", interactive |-> Top(tasks[i]).interactive,
               kind |-> r.kind, offered |-> r.accessToken,
               stateOk |-> (r.kind = "url" /\ r.state = Top(tasks[i]).state),
               granted |-> (attemptCallback(r, Top(tasks[i]).state).k = "val")]
    /\ ghost' = IF Top(tasks[i]).interactive
                   /\ attemptCallback(r, Top(tasks[i]).state).k = "exc"
                THEN logError(1)
                ELSE ghost
    /\ UNCHANGED <<app, ui, store, now>>

-----------------------------------------------------------------------------
(* Credential store operations *)

\* getCachedToken: storage.get is issued; the items are read in call order
GetCachedTokenFrame ==
    [fn |-> "getCachedToken", snap |-> store, changedOutside |-> ghost.tampered]

\* the storage.get callback of getCachedToken resolves the promise
getCachedToken_callback(i, lastError) ==
    /\ i \in Waiting("getCachedToken")
    /\ LET snap == Top(tasks[i]).snap
           result == getCachedToken(snap, lastError, now)
       IN  /\ Resume(i, Val(result))
           /\ obs' = [op |-> "getCachedToken", snap |-> snap, at |-> now,
                      lastError |-> lastError,
                      changedOutside |-> Top(tasks[i]).changedOutside,
                      result |-> result]
    /\ UNCHANGED <<app, ui, store, now, ghost>>

\* cacheToken: storage.set is issued (writes land in call order), then awaited
cacheToken_callback(i) ==
    /\ i \in Waiting("storage.set")
    /\ Resume(i, Val(0))
    /\ obs' = NoObs
    /\ UNCHANGED <<app, ui, store, now, ghost>>

\* clearCachedAuth: the storage.remove callback clears the tenant display
clearCachedAuth_callback(i) ==
    /\ i \in Waiting("storage.remove")
    /\ Resume(i, Val(0))
    /\ ui' = [ui EXCEPT !.tenantShown = FALSE]
    /\ obs' = NoObs
    /\ UNCHANGED <<app, store, now, ghost>>

\* validateToken: the probe call answers (ok) or fails (any other outcome)
validateToken_response(i, ok) ==
    /\ i \in Waiting("validateToken")
    /\ Resume(i, Val(ok))
    /\ obs' = NoObs
    /\ UNCHANGED <<app, ui, store, now, ghost>>

\* the stored token is replaced from outside the manager, the fingerprint kept
StoreTokenChanged(t) ==
    /\ Idle
    /\ store.accessToken # NoToken
    /\ t # store.accessToken
    /\ ~ghost.tampered
    /\ store' = [store EXCEPT !.accessToken = t]
    /\ ghost' = [ghost EXCEPT !.tampered = TRUE]
    /\ obs' = NoObs
    /\ UNCHANGED <<app, ui, now, run, ret, tasks>>

\* a minute passes
Tick ==
    /\ Idle
    /\ now < MaxTime
    /\ now' = now + 1
    /\ obs' = NoObs
    /\ UNCHANGED <<app, ui, store, run, ret, tasks, ghost>>

timer_fires(i) ==
    /\ i \in Waiting("timer")
    /\ Resume(i, NoRet)
    /\ obs' = NoObs
    /\ UNCHANGED <<app, ui, store, now, ghost>>

-----------------------------------------------------------------------------
(* performSilentAuth: primary scope, then the basic scopes, then null *)

NullInfo == TokenInfo(NoToken, 0)

PerformSilentAuthFrame == [fn |-> "performSilentAuth", pc |-> "entry"]

performSilentAuth_entry(s) ==
    /\ At("performSilentAuth", "entry")
    /\ Await("afterPrimary", LaunchFrame(FALSE, "mgmt", s))
    /\ obs' = NoObs
    /\ UNCHANGED <<app, ui, store, now, ghost>>

\* what performSilentAuth hands back: the scope of the request that was answered
\* last, and whether it was granted a token
SilentAuthDone(scope, granted) == [op |-> "silentAuth", scope |-> scope, granted |-> granted]

performSilentAuth_afterPrimary(s) ==
    /\ At("performSilentAuth", "afterPrimary")
    /\ IF ret.k = "val"
       THEN /\ Return(ret)
            /\ obs' = SilentAuthDone("mgmt", TRUE)
       ELSE /\ Await("afterFallback", LaunchFrame(FALSE, "basic", s))
            /\ obs' = NoObs
    /\ UNCHANGED <<app, ui, store, now, ghost>>

\* (variant) the failure of the fallback request is rethrown
performSilentAuth_afterFallbackThrow ==
    /\ At("performSilentAuth", "afterFallback")
    /\ Return(ret)
    /\ obs' = SilentAuthDone("basic", ret.k = "val")
    /\ UNCHANGED <<app, ui, store, now, ghost>>

performSilentAuth_afterFallback ==
    /\ At("performSilentAuth", "afterFallback")
    /\ Return(IF ret.k = "val" THEN ret ELSE Val(NullInfo))
    /\ obs' = SilentAuthDone("basic", ret.k = "val")
    /\ UNCHANGED <<app, ui, store, now, ghost>>

-----------------------------------------------------------------------------
(* authenticate *)

AuthenticateFrame ==
    [fn |-> "authenticate", pc |-> "entry", cached |-> NoToken, token |-> NoToken,
     staleRead |-> FALSE, launches |-> 0]

\* what authenticate hands back, with the number of interactive flows it ran
AuthRet(r, f) == [k |-> r.k, v |-> r.v, launches |-> f.launches]

BgRefreshTask(cachedToken) ==
    << [fn |-> "bgRefresh", pc |-> "entry", cachedToken |-> cachedToken],
       [fn |-> "timer"] >>

\* the cache read that just completed was of a credential inside the buffer
StaleRead ==
    /\ obs.op = "getCachedToken"
    /\ obs.snap.accessToken # NoToken
    /\ obs.snap.tokenExpiry - obs.at < bufferTime

authenticate_entry ==
    /\ At("authenticate", "entry")
    /\ ui' = [ui EXCEPT !.loading = TRUE]
    /\ Await("afterCache", GetCachedTokenFrame)
    /\ obs' = NoObs
    /\ UNCHANGED <<app, store, now, ghost>>

\* performOAuth2Flow -> attemptOAuth2WithScope(scopes[0])
performOAuth2Flow(f, s) ==
    AwaitAs([f EXCEPT !.pc = "afterOAuth", !.launches = f.launches + 1],
            LaunchFrame(TRUE, "mgmt", s))

authenticate_afterCache(s) ==
    /\ At("authenticate", "afterCache")
    /\ LET f == [Top(run) EXCEPT !.cached = ret.v, !.staleRead = StaleRead]
       IN  IF ret.v # NoToken
           THEN AwaitAs([f EXCEPT !.pc = "afterValidate"],
                        [fn |-> "validateToken", token |-> ret.v])
           ELSE performOAuth2Flow(f, s)
    /\ obs' = NoObs
    /\ UNCHANGED <<app, ui, store, now, ghost>>

authenticate_afterValidate(s) ==
    /\ At("authenticate", "afterValidate")
    /\ LET f == Top(run)
       IN  IF ret.v
           THEN /\ app' = [app EXCEPT !.accessToken = f.cached]
                /\ ui' = [ui EXCEPT !.tenantShown = TRUE, !.loading = FALSE]
                /\ run' = Pop(run)
                /\ ret' = IF Len(run) = 1 THEN NoRet ELSE AuthRet(Val(f.cached), f)
                /\ tasks' = Append(tasks, BgRefreshTask(f.cached))
                /\ obs' = [op |-> "adoptCached", staleRead |-> f.staleRead]
           ELSE /\ performOAuth2Flow(f, s)
                /\ obs' = NoObs
                /\ UNCHANGED <<app, ui>>
    /\ UNCHANGED <<store, now, ghost>>

authenticate_afterOAuth ==
    /\ At("authenticate", "afterOAuth")
    /\ IF ret.k = "val"
       THEN /\ app' = [app EXCEPT !.accessToken = ret.v.accessToken]
            /\ ui' = [ui EXCEPT !.tenantShown = TRUE]
            /\ store' = cacheEntry(ret.v.accessToken, ret.v.expiresIn, now)
            /\ ghost' = [ghost EXCEPT !.tampered = FALSE]
            /\ AwaitAs([Top(run) EXCEPT !.pc = "afterCacheToken",
                                        !.token = ret.v.accessToken],
                       [fn |-> "storage.set"])
            /\ obs' = [op |-> "acquired", staleRead |-> Top(run).staleRead]
       ELSE /\ ui' = [ui EXCEPT !.loading = FALSE]
            /\ Return(AuthRet(ret, Top(run)))
            /\ obs' = Failed("authenticate", ghost.errors + 2)
            /\ ghost' = IF Len(run) = 1 THEN [ghost EXCEPT !.errors = 0] ELSE logError(2)
            /\ UNCHANGED <<app, store>>
    /\ UNCHANGED now

authenticate_afterCacheToken ==
    /\ At("authenticate", "afterCacheToken")
    /\ ui' = [ui EXCEPT !.loading = FALSE]
    /\ Return(AuthRet(Val(Top(run).token), Top(run)))
    /\ obs' = NoObs
    /\ UNCHANGED <<app, store, now, ghost>>

\* the setTimeout callback of authenticate (after a cache hit)
bgRefresh_entry ==
    /\ At("bgRefresh", "entry")
    /\ Call([Top(run) EXCEPT !.pc = "afterSilent"], PerformSilentAuthFrame)
    /\ obs' = NoObs
    /\ UNCHANGED <<app, ui, store, now, ghost>>

bgRefresh_afterSilent ==
    /\ At("bgRefresh", "afterSilent")
    /\ IF ret.v.accessToken # NoToken /\ ret.v.accessToken # Top(run).cachedToken
       THEN /\ app' = [app EXCEPT !.accessToken = ret.v.accessToken]
            /\ store' = cacheEntry(ret.v.accessToken, ret.v.expiresIn, now)
            /\ ghost' = [ghost EXCEPT !.tampered = FALSE]
            /\ Await("afterCacheToken", [fn |-> "storage.set"])
       ELSE /\ Return(NoRet)
            /\ UNCHANGED <<app, store, ghost>>
    /\ obs' = [op |-> "renewed", ok |-> (ret.v.accessToken # NoToken), by |-> Top(run).fn]
    /\ UNCHANGED <<ui, now>>

bgRefresh_afterCacheToken ==
    /\ At("bgRefresh", "afterCacheToken")
    /\ Return(NoRet)
    /\ obs' = NoObs
    /\ UNCHANGED <<app, ui, store, now, ghost>>

-----------------------------------------------------------------------------
(* handleTokenExpiry *)

HandleTokenExpiryFrame == [fn |-> "handleTokenExpiry", pc |-> "entry", token |-> NoToken]

handleTokenExpiry_entry ==
    /\ At("handleTokenExpiry", "entry")
    /\ Call([Top(run) EXCEPT !.pc = "afterSilent"], PerformSilentAuthFrame)
    /\ obs' = NoObs
    /\ UNCHANGED <<app, ui, store, now, ghost>>

handleTokenExpiry_afterSilent ==
    /\ At("handleTokenExpiry", "afterSilent")
    /\ IF ret.v.accessToken # NoToken
       THEN /\ app' = [app EXCEPT !.accessToken = ret.v.accessToken]
            /\ store' = cacheEntry(ret.v.accessToken, ret.v.expiresIn, now)
            /\ AwaitAs([Top(run) EXCEPT !.pc = "afterCacheToken",
                                        !.token = ret.v.accessToken],
                       [fn |-> "storage.set"])
       ELSE /\ app' = [app EXCEPT !.accessToken = NoToken]
            /\ store' = EmptyStore
            /\ Await("afterClear", [fn |-> "storage.remove"])
    /\ ghost' = [ghost EXCEPT !.tampered = FALSE]
    /\ obs' = NoObs
    /\ UNCHANGED <<ui, now>>

handleTokenExpiry_afterCacheToken ==
    /\ At("handleTokenExpiry", "afterCacheToken")
    /\ Return(Val(Top(run).token))
    /\ obs' = NoObs
    /\ UNCHANGED <<app, ui, store, now, ghost>>

handleTokenExpiry_afterClear ==
    /\ At("handleTokenExpiry", "afterClear")
    /\ Return(Val(NoToken))
    /\ obs' = NoObs
    /\ UNCHANGED <<app, ui, store, now, ghost>>

-----------------------------------------------------------------------------
(* makeApiCall *)

\* a response: status (0: fetch itself failed) and body text ("empty", "json"
\* with the `value` array it parses to, or "bad": text that is not JSON)
Response(status, body, value) == [status |-> status, body |-> body, value |-> value]
NoResponse == Response(-1, "empty", <<>>)
Ok(r) == r.status >= 200 /\ r.status <= 299

\* what makeApiCall resolves to: the success marker, or the parsed body
Marker == Val([kind |-> "marker", value |-> <<>>])

\* responseText ? JSON.parse(responseText) : {}
Parsed(r) ==
    IF r.body = "bad" THEN Exc(0)
    ELSE Val([kind |-> "body", value |-> IF r.body = "empty" THEN <<>> ELSE r.value])

\* (variant) the body of every successful response is parsed
firstResultParsed(method, r) == Parsed(r)

\* lines 1245-1251: the first response is a success
firstResult(method, r) ==
    IF method \in {"POST", "PATCH"} /\ r.status \in {200, 202} THEN Marker ELSE Parsed(r)

\* (variant) the retried response's body is dropped
retryResultNoBody(method, r) ==
    IF method = "POST" /\ r.status = 202 THEN Marker
    ELSE IF method = "PATCH" /\ r.status \in {200, 202} THEN Marker
    ELSE Val([kind |-> "body", value |-> <<>>])

\* lines 1186-1195 and 1216-1225: the retried response is a success
retryResult(method, r) ==
    IF method = "POST" /\ r.status = 202 THEN Marker
    ELSE IF method = "PATCH" /\ r.status \in {200, 202} THEN Marker
    ELSE Parsed(r)

Request(kind, method, target) == [kind |-> kind, method |-> method, target |-> target]

MakeApiCallFrame(req) ==
    [fn |-> "makeApiCall", pc |-> "entry", req |-> req, bearer |-> NoToken,
     fetches |-> 0, first |-> -1, path |-> "none", silents |-> 0, renewed |-> NoToken,
     authenticates |-> 0, launches |-> 0, authOk |-> FALSE, okBody |-> "empty"]

FetchFrame(req, bearer) == [fn |-> "fetch", req |-> req, bearer |-> bearer]

\* bookkeeping: how the call that returns in this step went (okBody: the body
\* of the first response where that was a success)
ApiDone(f, retry, r) ==
    [op |-> "apiDone", req |-> f.req, first |-> f.first, okBody |-> f.okBody,
     path |-> f.path,
     fetches |-> f.fetches, silents |-> f.silents, renewed |-> f.renewed,
     authenticates |-> f.authenticates, launches |-> f.launches, authOk |-> f.authOk,
     bearer |-> f.bearer,
     retry |-> retry, k |-> r.k, result |-> r.v]

makeApiCall_entry ==
    /\ At("makeApiCall", "entry")
    /\ LET f == Top(run)
       IN  IF app.accessToken = NoToken
           THEN /\ Return(Exc(0))
                /\ obs' = ApiDone(f, NoResponse, Exc(0))
           ELSE /\ AwaitAs([f EXCEPT !.pc = "afterFetch", !.bearer = app.accessToken,
                                     !.fetches = 1],
                           FetchFrame(f.req, app.accessToken))
                /\ obs' = [op |-> "fetch", req |-> f.req, bearer |-> app.accessToken,
                           retry |-> FALSE]
    /\ UNCHANGED <<app, ui, store, now, ghost>>

\* the transport answers the request suspended task i waits for; the 401 answers
\* are counted up to MaxUnauthorized
fetch_response(i, r) ==
    /\ i \in Waiting("fetch")
    /\ Resume(i, Val(r))
    /\ obs' = NoObs
    /\ ghost' = [ghost EXCEPT !.unauthorized =
                      IF r.status = 401 THEN Min(@ + 1, MaxUnauthorized) ELSE @]
    /\ UNCHANGED <<app, ui, store, now>>

\* (variant) a 403 answer starts the renewal as a 401 answer does
makeApiCall_afterFetchRenewForbidden ==
    /\ At("makeApiCall", "afterFetch")
    /\ LET f == [Top(run) EXCEPT !.first = ret.v.status,
                                 !.okBody = IF Ok(ret.v) THEN ret.v.body ELSE "empty"]
           r == ret.v
       IN  IF Ok(r)
           THEN /\ Return(firstResult(f.req.method, r))
                /\ obs' = ApiDone(f, NoResponse, firstResult(f.req.method, r))
           ELSE IF r.status \in {401, 403}
           THEN /\ Call([f EXCEPT !.pc = "afterExpiry", !.silents = f.silents + 1],
                        HandleTokenExpiryFrame)
                /\ obs' = NoObs
           ELSE /\ Return(Exc(r.status))
                /\ obs' = ApiDone(f, NoResponse, Exc(r.status))
    /\ UNCHANGED <<app, ui, store, now, ghost>>

\* (variant) a request refused with another status than 401 drops the credential
makeApiCall_afterFetchForget ==
    /\ At("makeApiCall", "afterFetch")
    /\ LET f == [Top(run) EXCEPT !.first = ret.v.status,
                                 !.okBody = IF Ok(ret.v) THEN ret.v.body ELSE "empty"]
           r == ret.v
       IN  IF Ok(r)
           THEN /\ Return(firstResult(f.req.method, r))
                /\ obs' = ApiDone(f, NoResponse, firstResult(f.req.method, r))
                /\ UNCHANGED <<app, store>>
           ELSE IF r.status = 401
           THEN /\ Call([f EXCEPT !.pc = "afterExpiry", !.silents = f.silents + 1],
                        HandleTokenExpiryFrame)
                /\ obs' = NoObs
                /\ UNCHANGED <<app, store>>
           ELSE /\ Return(Exc(r.status))
                /\ obs' = ApiDone(f, NoResponse, Exc(r.status))
                /\ app' = [app EXCEPT !.accessToken = NoToken]
                /\ store' = EmptyStore
    /\ UNCHANGED <<ui, now, ghost>>

makeApiCall_afterFetch ==
    /\ At("makeApiCall", "afterFetch")
    /\ LET f == [Top(run) EXCEPT !.first = ret.v.status,
                                 !.okBody = IF Ok(ret.v) THEN ret.v.body ELSE "empty"]
           r == ret.v
       IN  IF Ok(r)
           THEN /\ Return(firstResult(f.req.method, r))
                /\ obs' = ApiDone(f, NoResponse, firstResult(f.req.method, r))
           ELSE IF r.status = 401
           THEN /\ Call([f EXCEPT !.pc = "afterExpiry", !.silents = f.silents + 1],
                        HandleTokenExpiryFrame)
                /\ obs' = NoObs
           ELSE /\ Return(Exc(r.status))
                /\ obs' = ApiDone(f, NoResponse, Exc(r.status))
    /\ UNCHANGED <<app, ui, store, now, ghost>>

makeApiCall_afterExpiry ==
    /\ At("makeApiCall", "afterExpiry")
    /\ LET f == Top(run)
       IN  IF ret.v # NoToken
           THEN /\ AwaitAs([f EXCEPT !.pc = "afterRetry", !.bearer = ret.v, !.renewed = ret.v,
                                     !.fetches = f.fetches + 1, !.path = "silent"],
                           FetchFrame(f.req, ret.v))
                /\ obs' = [op |-> "fetch", req |-> f.req, bearer |-> ret.v, retry |-> TRUE]
           ELSE /\ Call([f EXCEPT !.pc = "afterAuthenticate", !.path = "interactive",
                                  !.authenticates = f.authenticates + 1],
                        AuthenticateFrame)
                /\ obs' = NoObs
    /\ UNCHANGED <<app, ui, store, now, ghost>>

makeApiCall_afterAuthenticate ==
    /\ At("makeApiCall", "afterAuthenticate")
    /\ LET f == [Top(run) EXCEPT !.launches = ret.launches, !.authOk = (ret.k = "val")]
       IN  IF ret.k = "exc"
           THEN /\ Return(Exc(ret.v))
                /\ obs' = ApiDone(f, NoResponse, Exc(ret.v))
                /\ ghost' = IF Len(run) = 1 THEN [ghost EXCEPT !.errors = 0] ELSE ghost
           ELSE /\ AwaitAs([f EXCEPT !.pc = "afterRetry", !.bearer = app.accessToken,
                                     !.fetches = f.fetches + 1],
                           FetchFrame(f.req, app.accessToken))
                /\ obs' = [op |-> "fetch", req |-> f.req, bearer |-> app.accessToken,
                           retry |-> TRUE]
                /\ ghost' = ghost
    /\ UNCHANGED <<app, ui, store, now>>

\* (variant) a retried request answered 401 starts the renewal over
makeApiCall_afterRetryAgain ==
    /\ At("makeApiCall", "afterRetry")
    /\ LET f == Top(run)
           r == ret.v
           out == IF Ok(r) THEN retryResult(f.req.method, r) ELSE Exc(r.status)
       IN  IF r.status = 401
           THEN /\ Call([f EXCEPT !.pc = "afterExpiry", !.silents = f.silents + 1],
                        HandleTokenExpiryFrame)
                /\ obs' = NoObs
           ELSE /\ Return(out)
                /\ obs' = ApiDone(f, r, out)
    /\ UNCHANGED <<app, ui, store, now, ghost>>

makeApiCall_afterRetry ==
    /\ At("makeApiCall", "afterRetry")
    /\ LET f == Top(run)
           r == ret.v
           out == IF Ok(r) THEN retryResult(f.req.method, r) ELSE Exc(r.status)
       IN  /\ Return(out)
           /\ obs' = ApiDone(f, r, out)
    /\ UNCHANGED <<app, ui, store, now, ghost>>

-----------------------------------------------------------------------------
(* Controls: the capacity dropdown, the SKU dropdown and the buttons *)

\* a capacity as a list response carries it, and as this.capacities keeps it
Capacity(id, state, sku) == [id |-> id, state |-> state, sku |-> sku]
withSubscription(c, subscriptionId) ==
    [id |-> c.id, subscriptionId |-> subscriptionId, state |-> c.state, sku |-> c.sku]

\* what a handler's synchronous code leaves: the controls, and whether it threw
Done(u) == [thrown |-> FALSE, ui |-> u]
Thrown(u) == [thrown |-> TRUE, ui |-> u]

\* the options are rebuilt: the selected one is gone, the placeholder is selected
populateCapacityDropdown(u, caps) ==
    [u EXCEPT !.options = [i \in 1..Len(caps) |-> caps[i].id], !.sel = 0]

\* u.sel is capacitySelect.value: 0 for '', i + 1 for the option of index i
onCapacitySelectionChange(u, caps) ==
    IF u.sel = 0
    THEN Done([u EXCEPT !.startDisabled = TRUE, !.stopDisabled = TRUE, !.skuShown = FALSE])
    ELSE IF u.sel > Len(caps)
    THEN Thrown(u)
    ELSE Done([u EXCEPT !.startDisabled = (caps[u.sel].state = "Active"),
                        !.stopDisabled = (caps[u.sel].state = "Paused"),
                        !.skuShown = TRUE,
                        !.skuValue = caps[u.sel].sku,
                        !.updateSkuDisabled = TRUE])

\* (variant) disabling leaves the start button as it is
setButtonsEnabledKeepStart(enabled, u, caps) ==
    IF enabled
    THEN LET r == onCapacitySelectionChange(u, caps)
         IN  IF r.thrown THEN r ELSE Done([r.ui EXCEPT !.refreshDisabled = FALSE])
    ELSE Done([u EXCEPT !.stopDisabled = TRUE, !.refreshDisabled = TRUE])

setButtonsEnabled(enabled, u, caps) ==
    IF enabled
    THEN LET r == onCapacitySelectionChange(u, caps)
         IN  IF r.thrown THEN r ELSE Done([r.ui EXCEPT !.refreshDisabled = FALSE])
    ELSE Done([u EXCEPT !.startDisabled = TRUE, !.stopDisabled = TRUE,
                        !.refreshDisabled = TRUE])

-----------------------------------------------------------------------------
(* Discovery: loadCapacities and refreshCapacities *)

RECURSIVE Flatten(_)
Flatten(got) == IF got = <<>> THEN <<>> ELSE Head(got).caps \o Flatten(Tail(got))

\* (variant) new Set(...) is left out: one entry per capacity
NotUnique(seq) == seq

RECURSIVE Unique(_)
Unique(seq) ==
    IF seq = <<>> THEN <<>>
    ELSE LET rest == Unique(SubSeq(seq, 1, Len(seq) - 1))
         IN  IF \E i \in 1..Len(rest) : rest[i] = seq[Len(seq)]
             THEN rest ELSE Append(rest, seq[Len(seq)])

\* (variant) a 404 is rethrown as every other failure is
getCapacitiesForSubscriptionRethrow(subscriptionId, r) ==
    IF r.k = "val"
    THEN [ok |-> TRUE, caps |-> [i \in 1..Len(r.v.value) |->
                                     withSubscription(r.v.value[i], subscriptionId)]]
    ELSE [ok |-> FALSE, caps |-> <<>>]

\* what the listing of a scope ended with, for the bookkeeping of a pass
listStatus(r) == IF r.k = "exc" THEN r.v ELSE 200

\* getCapacitiesForSubscription, on what its makeApiCall handed back
getCapacitiesForSubscription(subscriptionId, r) ==
    IF r.k = "val"
    THEN [ok |-> TRUE, caps |-> [i \in 1..Len(r.v.value) |->
                                     withSubscription(r.v.value[i], subscriptionId)]]
    ELSE IF r.v = 404 THEN [ok |-> TRUE, caps |-> <<>>]
    ELSE [ok |-> FALSE, caps |-> <<>>]

ListRequest(subscriptionId) == Request("list", "GET", subscriptionId)

\* a pass as it ends: the scopes it enumerated with what each gave, and what was
\* selected (by id, "" for nothing) when it began
PassDone(f, caps, u) ==
    [op |-> "passDone", pass |-> f.fn, got |-> f.got, was |-> f.was, had |-> f.had,
     refresh |-> (f.fn = "refreshCapacities"
                  \/ (Len(run) > 1 /\ run[Len(run) - 1].fn = "refreshCapacities")),
     capacities |-> caps, options |-> u.options, sel |-> u.sel]

LoadCapacitiesFrame ==
    [fn |-> "loadCapacities", pc |-> "entry", todo |-> <<>>, got |-> <<>>, was |-> "",
     had |-> <<>>]

selectedOption(u) == IF u.sel = 0 \/ u.sel > Len(u.options) THEN "" ELSE u.options[u.sel]

\* (variant) the subscriptions are listed whether a credential is held or not
loadCapacities_entryNoAuthenticate ==
    /\ At("loadCapacities", "entry")
    /\ ui' = [ui EXCEPT !.loading = TRUE]
    /\ app' = [app EXCEPT !.capacities = <<>>]
    /\ Call([Top(run) EXCEPT !.was = selectedOption(ui), !.pc = "afterSubscriptions"],
            MakeApiCallFrame(Request("subscriptions", "GET", "")))
    /\ obs' = NoObs
    /\ UNCHANGED <<store, now, ghost>>

loadCapacities_entry ==
    /\ At("loadCapacities", "entry")
    /\ ui' = [ui EXCEPT !.loading = TRUE]
    /\ app' = [app EXCEPT !.capacities = <<>>]
    /\ LET f == [Top(run) EXCEPT !.was = selectedOption(ui)]
       IN  IF app.accessToken = NoToken
           THEN Call([f EXCEPT !.pc = "afterAuthenticate"], AuthenticateFrame)
           ELSE Call([f EXCEPT !.pc = "afterSubscriptions"],
                     MakeApiCallFrame(Request("subscriptions", "GET", "")))
    /\ obs' = NoObs
    /\ UNCHANGED <<store, now, ghost>>

loadCapacities_afterAuthenticate ==
    /\ At("loadCapacities", "afterAuthenticate")
    /\ IF ret.k = "exc"
       THEN /\ ui' = [ui EXCEPT !.loading = FALSE]
            /\ Return(Val(0))
            /\ obs' = Failed("loadCapacities", ghost.errors + 1)
       ELSE /\ Call([Top(run) EXCEPT !.pc = "afterSubscriptions"],
                    MakeApiCallFrame(Request("subscriptions", "GET", "")))
            /\ ui' = ui
            /\ obs' = NoObs
    /\ ghost' = [ghost EXCEPT !.errors = 0]
    /\ UNCHANGED <<app, store, now>>

\* the loop of loadCapacities: the next scope, or the end of the pass
loadCapacities_next(f, caps) ==
    IF f.todo # <<>>
    THEN /\ Call([f EXCEPT !.pc = "afterCapacities"], MakeApiCallFrame(ListRequest(Head(f.todo))))
         /\ app' = [app EXCEPT !.capacities = caps]
         /\ ui' = ui
         /\ obs' = NoObs
    ELSE /\ app' = [app EXCEPT !.capacities = caps, !.initialLoadComplete = TRUE]
         /\ ui' = [populateCapacityDropdown(ui, caps) EXCEPT !.loading = FALSE]
         /\ Return(Val(0))
         /\ obs' = PassDone(f, caps, populateCapacityDropdown(ui, caps))

loadCapacities_afterSubscriptions ==
    /\ At("loadCapacities", "afterSubscriptions")
    /\ IF ret.k = "exc"
       THEN /\ ui' = [ui EXCEPT !.loading = FALSE]
            /\ Return(Val(0))
            /\ obs' = Failed("loadCapacities", ghost.errors + 1)
            /\ app' = app
       ELSE loadCapacities_next([Top(run) EXCEPT !.todo = ret.v.value], app.capacities)
    /\ ghost' = [ghost EXCEPT !.errors = 0]
    /\ UNCHANGED <<store, now>>

loadCapacities_afterCapacities ==
    /\ At("loadCapacities", "afterCapacities")
    /\ LET f == Top(run)
           r == getCapacitiesForSubscription(Head(f.todo), ret)
       IN  loadCapacities_next(
               [f EXCEPT !.todo = Tail(f.todo),
                         !.got = Append(f.got, [scope |-> Head(f.todo), ok |-> r.ok,
                                                caps |-> r.caps,
                                                status |-> listStatus(ret)])],
               app.capacities \o r.caps)
    /\ UNCHANGED <<store, now, ghost>>

RefreshCapacitiesFrame ==
    [fn |-> "refreshCapacities", pc |-> "entry", todo |-> <<>>, got |-> <<>>, was |-> "",
     had |-> <<>>, selectedCapacityId |-> ""]

\* lines 742-765: the pass begins
refreshCapacities_begin(f) ==
    LET selectedCapacityId ==
            IF ui.sel = 0 \/ ui.sel > Len(app.capacities) THEN ""
            ELSE app.capacities[ui.sel].id
        subscriptionIds == Unique([i \in 1..Len(app.capacities) |->
                                       app.capacities[i].subscriptionId])
        g == [f EXCEPT !.selectedCapacityId = selectedCapacityId,
                       !.todo = subscriptionIds, !.had = app.capacities]
    IN  /\ ui' = [ui EXCEPT !.selectDisabled = TRUE, !.refreshDisabled = TRUE,
                            !.skuShown = FALSE]
        /\ IF subscriptionIds = <<>>
           THEN Call([g EXCEPT !.pc = "afterLoadInTry"], LoadCapacitiesFrame)
           ELSE Call([g EXCEPT !.pc = "afterCapacities"],
                     MakeApiCallFrame(ListRequest(Head(subscriptionIds))))

refreshCapacities_entry ==
    /\ At("refreshCapacities", "entry")
    /\ LET f == [Top(run) EXCEPT !.was = selectedOption(ui)]
       IN  IF app.accessToken = NoToken
           THEN /\ Call([f EXCEPT !.pc = "afterLoad"], LoadCapacitiesFrame)
                /\ ui' = ui
                /\ obs' = NoObs
           ELSE IF ui.loading
           THEN /\ Return(Val(0))
                /\ ui' = ui
                /\ obs' = [op |-> "refreshSkipped"]
           ELSE /\ refreshCapacities_begin(f)
                /\ obs' = NoObs
    /\ UNCHANGED <<app, store, now, ghost>>

\* lines 730-734 and 760-765: the full load the refresh fell back to has returned
refreshCapacities_afterLoad ==
    /\ run # <<>> /\ Top(run).fn = "refreshCapacities"
    /\ Top(run).pc \in {"afterLoad", "afterLoadInTry"}
    /\ ui' = IF Top(run).pc = "afterLoadInTry"
             THEN [ui EXCEPT !.selectDisabled = FALSE, !.refreshDisabled = FALSE]
             ELSE ui
    /\ Return(Val(0))
    /\ obs' = NoObs
    /\ UNCHANGED <<app, store, now, ghost>>

\* lines 778-797: the refreshed list replaces the old one, the selection is restored
refreshCapacities_finish(f) ==
    LET refreshedCapacities == Flatten(f.got)
        populated == populateCapacityDropdown(ui, refreshedCapacities)
        found == {i \in 1..Len(refreshedCapacities) :
                      refreshedCapacities[i].id = f.selectedCapacityId}
        newIndex == IF found = {} THEN 0 ELSE CHOOSE i \in found : \A j \in found : i <= j
        restored == IF f.selectedCapacityId # "" /\ newIndex # 0
                    THEN onCapacitySelectionChange([populated EXCEPT !.sel = newIndex],
                                                   refreshedCapacities).ui
                    ELSE populated
        u == [restored EXCEPT !.selectDisabled = FALSE, !.refreshDisabled = FALSE]
    IN  /\ app' = [app EXCEPT !.capacities = refreshedCapacities]
        /\ ui' = u
        /\ Return(Val(0))
        /\ obs' = PassDone(f, refreshedCapacities, u)

refreshCapacities_afterCapacities ==
    /\ At("refreshCapacities", "afterCapacities")
    /\ LET f == Top(run)
           r == getCapacitiesForSubscription(Head(f.todo), ret)
           g == [f EXCEPT !.todo = Tail(f.todo),
                          !.got = Append(f.got, [scope |-> Head(f.todo), ok |-> r.ok,
                                                 caps |-> r.caps,
                                                 status |-> listStatus(ret)])]
       IN  IF g.todo # <<>>
           THEN /\ Call(g, MakeApiCallFrame(ListRequest(Head(g.todo))))
                /\ obs' = NoObs
                /\ UNCHANGED <<app, ui>>
           ELSE refreshCapacities_finish(g)
    /\ UNCHANGED <<store, now, ghost>>

-----------------------------------------------------------------------------
(* Mutations: performCapacityOperation and updateCapacitySku *)

\* the callback of setTimeout(..., 2000) and of setTimeout(..., 3000)
\* id: the capacity whose mutation set the timer; was: what is selected when it fires
RefreshTimerTask(reselect, id) ==
    << [fn |-> "refreshTimer", pc |-> "entry", reselect |-> reselect, id |-> id,
        was |-> ""],
       [fn |-> "timer"] >>

PerformCapacityOperationFrame(operation) ==
    [fn |-> "performCapacityOperation", pc |-> "entry", operation |-> operation,
     id |-> "", shown |-> ""]

performCapacityOperation_entry ==
    /\ At("performCapacityOperation", "entry")
    /\ IF ui.sel = 0 \/ ui.sel > Len(app.capacities)
       THEN \* nothing selected: return; no such capacity: TypeError, here and
            \* again in the catch and in setButtonsEnabled(true)
            /\ Return(Val(0))
            /\ ui' = ui
       ELSE /\ ui' = setButtonsEnabled(FALSE, ui, app.capacities).ui
            /\ Call([Top(run) EXCEPT !.pc = "afterCall", !.id = app.capacities[ui.sel].id,
                                     !.shown = selectedOption(ui)],
                    MakeApiCallFrame(Request(Top(run).operation, "POST",
                                             app.capacities[ui.sel].id)))
    /\ obs' = NoObs
    /\ UNCHANGED <<app, store, now, ghost>>

\* bookkeeping: the mutation that ends in this step; its catch logs the error,
\* the setButtonsEnabled(true) of its finally may throw
MutationDone(f, r) ==
    [op |-> "mutationDone", id |-> f.id, failed |-> (r.k = "exc"),
     errorLogged |-> (r.k = "exc"),
     errors |-> IF r.k = "exc" THEN ghost.errors + 1 ELSE 0,
     thrown |-> setButtonsEnabled(TRUE, ui, app.capacities).thrown]

\* the finally of both mutations; `more` is what follows setButtonsEnabled(true)
mutation_finally(more) ==
    LET r == setButtonsEnabled(TRUE, ui, app.capacities)
    IN  ui' = IF r.thrown THEN r.ui
              ELSE [r.ui EXCEPT !.skuSelectDisabled = IF more THEN FALSE ELSE @]

performCapacityOperation_afterCall ==
    /\ At("performCapacityOperation", "afterCall")
    /\ run' = Pop(run)
    /\ ret' = NoRet
    /\ tasks' = IF ret.k = "val" THEN Append(tasks, RefreshTimerTask(FALSE, Top(run).id))
                ELSE tasks
    /\ mutation_finally(FALSE)
    /\ obs' = MutationDone(Top(run), ret)
    /\ ghost' = [ghost EXCEPT !.errors = 0]
    /\ UNCHANGED <<app, store, now>>

\* confirm() has been asked and has answered
Confirmed(proceed) == [op |-> "confirm", proceed |-> proceed]

UpdateCapacitySkuFrame ==
    [fn |-> "updateCapacitySku", pc |-> "entry", id |-> "", shown |-> ""]

\* (variant) the comparison with the current sku is left out
updateCapacitySku_entryNoGuard(proceed) ==
    /\ At("updateCapacitySku", "entry")
    /\ IF ui.sel = 0 \/ ui.skuValue = "" \/ ui.sel > Len(app.capacities)
       THEN /\ Return(Val(0))
            /\ ui' = ui
            /\ obs' = NoObs
       ELSE IF app.capacities[ui.sel].state = "Active" /\ ~proceed
       THEN /\ Return(Val(0))
            /\ ui' = ui
            /\ obs' = Confirmed(FALSE)
       ELSE /\ ui' = [setButtonsEnabled(FALSE, ui, app.capacities).ui
                         EXCEPT !.updateSkuDisabled = TRUE, !.skuSelectDisabled = TRUE]
            /\ Call([Top(run) EXCEPT !.pc = "afterCall", !.id = app.capacities[ui.sel].id,
                                     !.shown = selectedOption(ui)],
                    MakeApiCallFrame(Request("patch", "PATCH", app.capacities[ui.sel].id)))
            /\ obs' = IF app.capacities[ui.sel].state = "Active" THEN Confirmed(TRUE)
                      ELSE NoObs
    /\ UNCHANGED <<app, store, now, ghost>>

\* (variant) the answer to confirm() is not looked at
updateCapacitySku_entryNoConfirm(proceed) ==
    /\ At("updateCapacitySku", "entry")
    /\ IF ui.sel = 0 \/ ui.skuValue = "" \/ ui.sel > Len(app.capacities)
       THEN /\ Return(Val(0))
            /\ ui' = ui
            /\ obs' = NoObs
       ELSE IF ui.skuValue = app.capacities[ui.sel].sku
       THEN /\ Return(Val(0))
            /\ ui' = ui
            /\ obs' = [op |-> "noSkuChange"]
       ELSE /\ ui' = [setButtonsEnabled(FALSE, ui, app.capacities).ui
                         EXCEPT !.updateSkuDisabled = TRUE, !.skuSelectDisabled = TRUE]
            /\ Call([Top(run) EXCEPT !.pc = "afterCall", !.id = app.capacities[ui.sel].id,
                                     !.shown = selectedOption(ui)],
                    MakeApiCallFrame(Request("patch", "PATCH", app.capacities[ui.sel].id)))
            /\ obs' = IF app.capacities[ui.sel].state = "Active" THEN Confirmed(proceed)
                      ELSE NoObs
    /\ UNCHANGED <<app, store, now, ghost>>

\* proceed: the answer to confirm(), asked when the capacity is Active
updateCapacitySku_entry(proceed) ==
    /\ At("updateCapacitySku", "entry")
    /\ IF ui.sel = 0 \/ ui.skuValue = "" \/ ui.sel > Len(app.capacities)
       THEN /\ Return(Val(0))
            /\ ui' = ui
            /\ obs' = NoObs
       ELSE IF ui.skuValue = app.capacities[ui.sel].sku
       THEN /\ Return(Val(0))
            /\ ui' = ui
            /\ obs' = [op |-> "noSkuChange"]
       ELSE IF app.capacities[ui.sel].state = "Active" /\ ~proceed
       THEN /\ Return(Val(0))
            /\ ui' = ui
            /\ obs' = Confirmed(FALSE)
       ELSE /\ ui' = [setButtonsEnabled(FALSE, ui, app.capacities).ui
                         EXCEPT !.updateSkuDisabled = TRUE, !.skuSelectDisabled = TRUE]
            /\ Call([Top(run) EXCEPT !.pc = "afterCall", !.id = app.capacities[ui.sel].id,
                                     !.shown = selectedOption(ui)],
                    MakeApiCallFrame(Request("patch", "PATCH", app.capacities[ui.sel].id)))
            /\ obs' = IF app.capacities[ui.sel].state = "Active" THEN Confirmed(TRUE)
                      ELSE NoObs
    /\ UNCHANGED <<app, store, now, ghost>>

updateCapacitySku_afterCall ==
    /\ At("updateCapacitySku", "afterCall")
    /\ run' = Pop(run)
    /\ ret' = NoRet
    /\ tasks' = IF ret.k = "val" THEN Append(tasks, RefreshTimerTask(TRUE, Top(run).id))
                ELSE tasks
    /\ mutation_finally(TRUE)
    /\ obs' = MutationDone(Top(run), ret)
    /\ ghost' = [ghost EXCEPT !.errors = 0]
    /\ UNCHANGED <<app, store, now>>

refreshTimer_entry ==
    /\ At("refreshTimer", "entry")
    /\ Call([Top(run) EXCEPT !.pc = "afterRefresh", !.was = selectedOption(ui)],
            RefreshCapacitiesFrame)
    /\ obs' = NoObs
    /\ UNCHANGED <<app, ui, store, now, ghost>>

refreshTimer_afterRefresh ==
    /\ At("refreshTimer", "afterRefresh")
    /\ ui' = IF Top(run).reselect /\ ui.sel # 0
             THEN onCapacitySelectionChange(ui, app.capacities).ui
             ELSE ui
    /\ Return(Val(0))
    /\ obs' = [op |-> "timerDone", id |-> Top(run).id, was |-> Top(run).was,
                skipped |-> (obs.op = "refreshSkipped")]
    /\ UNCHANGED <<app, store, now, ghost>>

-----------------------------------------------------------------------------
(* init, and the user's intents.  A disabled or hidden control dispatches no *)
(* event; n bounds the tasks pending when a handler is started.              *)

InitFrame == [fn |-> "init", pc |-> "entry"]

init_entry ==
    /\ At("init", "entry")
    /\ Call([Top(run) EXCEPT !.pc = "afterAuthenticate"], AuthenticateFrame)
    /\ obs' = NoObs
    /\ UNCHANGED <<app, ui, store, now, ghost>>

init_afterAuthenticate ==
    /\ At("init", "afterAuthenticate")
    /\ IF ret.k = "exc"
       THEN /\ Return(Val(0))
            /\ obs' = Failed("init", ghost.errors + 1)
       ELSE /\ Call([Top(run) EXCEPT !.pc = "afterLoad"], LoadCapacitiesFrame)
            /\ obs' = NoObs
    /\ ghost' = [ghost EXCEPT !.errors = 0]
    /\ UNCHANGED <<app, ui, store, now>>

\* loadCapacities has returned: startTokenRefreshTimer
init_afterLoad ==
    /\ At("init", "afterLoad")
    /\ app' = [app EXCEPT !.refreshInterval = TRUE]
    /\ Return(Val(0))
    /\ obs' = NoObs
    /\ UNCHANGED <<ui, store, now, ghost>>

\* init has returned: the user leaves the popup alone until then
Ready == Idle /\ Rooted("init") = {}

\* a handler starts as a task of its own: click c + 1 of the run, with fewer
\* than n tasks pending
dispatch(frame, n, c) ==
    /\ Ready
    /\ Len(tasks) < n
    /\ ghost.clicks < c
    /\ ghost' = [ghost EXCEPT !.clicks = @ + 1]
    /\ run' = <<frame>>
    /\ ret' = NoRet
    /\ obs' = NoObs
    /\ UNCHANGED <<app, ui, store, now, tasks>>

click_refresh(n, c) == ~ui.refreshDisabled /\ dispatch(RefreshCapacitiesFrame, n, c)
click_start(n, c) ==
    ~ui.startDisabled /\ dispatch(PerformCapacityOperationFrame("resume"), n, c)
click_stop(n, c) ==
    ~ui.stopDisabled /\ dispatch(PerformCapacityOperationFrame("suspend"), n, c)
click_updateSku(n, c) ==
    ui.skuShown /\ ~ui.updateSkuDisabled /\ dispatch(UpdateCapacitySkuFrame, n, c)

\* the user picks option v of the capacity dropdown (0: the placeholder), with
\* fewer than m tasks pending
change_capacitySelect(v, m) ==
    /\ Ready
    /\ Len(tasks) < m
    /\ ~ui.selectDisabled
    /\ v \in 0..Len(ui.options)
    /\ v # ui.sel
    /\ ui' = onCapacitySelectionChange([ui EXCEPT !.sel = v], app.capacities).ui
    /\ obs' = NoObs
    /\ UNCHANGED <<app, store, now, run, ret, tasks, ghost>>

\* the user picks sku k of the SKU dropdown: onSkuSelectionChange
change_skuSelect(k, m) ==
    /\ Ready
    /\ Len(tasks) < m
    /\ ui.skuShown /\ ~ui.skuSelectDisabled
    /\ k # ui.skuValue
    /\ ui' = IF ui.sel = 0 \/ ui.sel > Len(app.capacities)
             THEN [ui EXCEPT !.skuValue = k]
             ELSE [ui EXCEPT !.skuValue = k,
                             !.updateSkuDisabled = (k = app.capacities[ui.sel].sku)]
    /\ obs' = NoObs
    /\ UNCHANGED <<app, store, now, run, ret, tasks, ghost>>

-----------------------------------------------------------------------------
(* handleLogout *)

HandleLogoutFrame == [fn |-> "handleLogout", pc |-> "entry"]

\* clearCachedAuth: storage.remove is issued, then awaited
handleLogout_entry ==
    /\ At("handleLogout", "entry")
    /\ store' = EmptyStore
    /\ ghost' = [ghost EXCEPT !.tampered = FALSE]
    /\ Await("afterClear", [fn |-> "storage.remove"])
    /\ obs' = NoObs
    /\ UNCHANGED <<app, ui, now>>

handleLogout_afterClear ==
    /\ At("handleLogout", "afterClear")
    /\ app' = [app EXCEPT !.accessToken = NoToken, !.capacities = <<>>,
                          !.initialLoadComplete = FALSE]
    /\ ui' = [populateCapacityDropdown(ui, <<>>)
                 EXCEPT !.skuShown = FALSE, !.startDisabled = TRUE,
                        !.stopDisabled = TRUE, !.updateSkuDisabled = TRUE]
    /\ Return(Val(0))
    /\ obs' = [op |-> "logoutDone"]
    /\ ghost' = [ghost EXCEPT !.loggedOut = TRUE]
    /\ UNCHANGED <<store, now>>

\* the logout button is never disabled
click_logout(n, c) == dispatch(HandleLogoutFrame, n, c)

-----------------------------------------------------------------------------
(* startTokenRefreshTimer: the callback of setInterval(..., 10 minutes) *)

refreshThreshold == 15
\* setInterval(..., 10 * 60 * 1000)
tickInterval == 10

TokenRefreshFrame == [fn |-> "tokenRefreshTimer", pc |-> "entry", cachedToken |-> NoToken]

\* the interval elapses; the callback of the tick before has long ended
interval_fires ==
    /\ Idle
    /\ app.refreshInterval
    /\ \A i \in 1..Len(tasks) : tasks[i][1].fn # "tokenRefreshTimer"
    /\ run' = <<TokenRefreshFrame>>
    /\ ret' = NoRet
    /\ obs' = NoObs
    /\ UNCHANGED <<app, ui, store, now, tasks, ghost>>

\* (variant) the callback runs every 20 minutes
interval_elapsesLate ==
    /\ Idle
    /\ tasks = <<>>
    /\ app.refreshInterval
    /\ now' = now + 2 * tickInterval
    /\ run' = <<TokenRefreshFrame>>
    /\ ret' = NoRet
    /\ obs' = NoObs
    /\ UNCHANGED <<app, ui, store, tasks, ghost>>

\* the interval elapses on time: 10 minutes after it was set or last elapsed
interval_elapses ==
    /\ Idle
    /\ tasks = <<>>
    /\ app.refreshInterval
    /\ now' = now + tickInterval
    /\ run' = <<TokenRefreshFrame>>
    /\ ret' = NoRet
    /\ obs' = NoObs
    /\ UNCHANGED <<app, ui, store, tasks, ghost>>

tokenRefreshTimer_entry ==
    /\ At("tokenRefreshTimer", "entry")
    /\ Await("afterCache", GetCachedTokenFrame)
    /\ obs' = NoObs
    /\ UNCHANGED <<app, ui, store, now, ghost>>

\* what a tick decided: the token getCachedToken gave, the expiry read after it
Ticked(cachedToken, tokenExpiry) ==
    [op |-> "tick", cachedToken |-> cachedToken, tokenExpiry |-> tokenExpiry, at |-> now]

\* no usable token: clearInterval; otherwise storage.get(['tokenExpiry', ...])
tokenRefreshTimer_afterCache ==
    /\ At("tokenRefreshTimer", "afterCache")
    /\ IF ret.v = NoToken
       THEN /\ app' = [app EXCEPT !.refreshInterval = FALSE]
            /\ Return(NoRet)
            /\ obs' = Ticked(NoToken, 0)
       ELSE /\ AwaitAs([Top(run) EXCEPT !.pc = "afterExpiry", !.cachedToken = ret.v],
                       [fn |-> "storage.get", snap |-> store])
            /\ obs' = NoObs
            /\ app' = app
    /\ UNCHANGED <<ui, store, now, ghost>>

\* the callback of that storage.get: the items as they were when it was issued
storageGet_callback(i) ==
    /\ i \in Waiting("storage.get")
    /\ Resume(i, Val(Top(tasks[i]).snap.tokenExpiry))
    /\ obs' = NoObs
    /\ UNCHANGED <<app, ui, store, now, ghost>>

\* (variant) the renewal is attempted whatever the time left is
tokenRefreshTimer_afterExpiryAlways ==
    /\ At("tokenRefreshTimer", "afterExpiry")
    /\ IF ret.v # 0
       THEN Call([Top(run) EXCEPT !.pc = "afterSilent"], PerformSilentAuthFrame)
       ELSE Return(NoRet)
    /\ obs' = Ticked(Top(run).cachedToken, ret.v)
    /\ UNCHANGED <<app, ui, store, now, ghost>>

\* lines 650-657: the minutes until expiry decide (time is counted in minutes)
tokenRefreshTimer_afterExpiry ==
    /\ At("tokenRefreshTimer", "afterExpiry")
    /\ LET minutesUntilExpiry == ret.v - now
       IN  IF ret.v # 0 /\ minutesUntilExpiry < refreshThreshold /\ minutesUntilExpiry > 0
           THEN Call([Top(run) EXCEPT !.pc = "afterSilent"], PerformSilentAuthFrame)
           ELSE Return(NoRet)
    /\ obs' = Ticked(Top(run).cachedToken, ret.v)
    /\ UNCHANGED <<app, ui, store, now, ghost>>

\* (variant) a renewal that gave nothing clears the credential
tokenRefreshTimer_afterSilentClear ==
    /\ At("tokenRefreshTimer", "afterSilent")
    /\ IF ret.v.accessToken # NoToken
       THEN /\ app' = [app EXCEPT !.accessToken = ret.v.accessToken]
            /\ store' = cacheEntry(ret.v.accessToken, ret.v.expiresIn, now)
            /\ ghost' = [ghost EXCEPT !.tampered = FALSE]
            /\ Await("afterCacheToken", [fn |-> "storage.set"])
       ELSE /\ app' = [app EXCEPT !.accessToken = NoToken]
            /\ store' = EmptyStore
            /\ ghost' = ghost
            /\ Return(NoRet)
    /\ obs' = [op |-> "renewed", ok |-> (ret.v.accessToken # NoToken), by |-> Top(run).fn]
    /\ UNCHANGED <<ui, now>>

\* lines 660-671: performSilentAuth has returned a token, or null
tokenRefreshTimer_afterSilent ==
    /\ At("tokenRefreshTimer", "afterSilent")
    /\ IF ret.v.accessToken # NoToken
       THEN /\ app' = [app EXCEPT !.accessToken = ret.v.accessToken]
            /\ store' = cacheEntry(ret.v.accessToken, ret.v.expiresIn, now)
            /\ ghost' = [ghost EXCEPT !.tampered = FALSE]
            /\ Await("afterCacheToken", [fn |-> "storage.set"])
       ELSE /\ Return(NoRet)
            /\ UNCHANGED <<app, store, ghost>>
    /\ obs' = [op |-> "renewed", ok |-> (ret.v.accessToken # NoToken), by |-> Top(run).fn]
    /\ UNCHANGED <<ui, now>>

tokenRefreshTimer_afterCacheToken ==
    /\ At("tokenRefreshTimer", "afterCacheToken")
    /\ ui' = [ui EXCEPT !.tenantShown = TRUE]
    /\ Return(NoRet)
    /\ obs' = NoObs
    /\ UNCHANGED <<app, store, now, ghost>>

-----------------------------------------------------------------------------
(* Initial states *)

InitApp ==
    [accessToken |-> NoToken, capacities |-> <<>>, initialLoadComplete |-> FALSE,
     refreshInterval |-> FALSE]

InitUi ==
    [options |-> <<>>, sel |-> 0, startDisabled |-> TRUE, stopDisabled |-> TRUE,
     refreshDisabled |-> FALSE, updateSkuDisabled |-> TRUE, selectDisabled |-> FALSE,
     skuSelectDisabled |-> FALSE, skuShown |-> FALSE, skuValue |-> "",
     loading |-> FALSE, tenantShown |-> FALSE]

InitGhost ==
    [tampered |-> FALSE, clicks |-> 0, unauthorized |-> 0, errors |-> 0, loggedOut |-> FALSE]

\* what an earlier session may have left in chrome.storage.local
StoredSessions(expiries) ==
    {EmptyStore} \cup
    {[accessToken |-> t, tokenExpiry |-> e, sessionInfo |-> NoSession] :
        t \in Tokens, e \in expiries} \cup
    {[accessToken |-> t, tokenExpiry |-> e, sessionInfo |-> <<TokenHash(t)>>] :
        t \in Tokens, e \in expiries}

-----------------------------------------------------------------------------
(* SpecToken: the token lifecycle alone.  authenticate is called as init,   *)
(* loadCapacities and makeApiCall call it; the clock runs and the store may *)
(* be changed from outside.                                                 *)

InitToken ==
    /\ app = InitApp
    /\ ui = InitUi
    /\ store \in StoredSessions(1..MaxTime)
    /\ now = 0
    /\ run = <<>>
    /\ ret = NoRet
    /\ tasks = <<>>
    /\ obs = NoObs
    /\ ghost = InitGhost

\* init -> authenticate, while fewer than n tasks are pending
call_authenticate(n) ==
    /\ Idle
    /\ Len(tasks) < n
    /\ run' = <<AuthenticateFrame>>
    /\ ret' = NoRet
    /\ obs' = NoObs
    /\ UNCHANGED <<app, ui, store, now, tasks, ghost>>

TokenLifetimes == {0, 3}
TokenAuthResponses == AuthFailures \cup AuthGrants(Tokens, TokenLifetimes)

NextToken ==
    \/ call_authenticate(1)
    \/ Tick
    \/ \E t \in Tokens : StoreTokenChanged(t)
    \/ \E i \in 1..Len(tasks), e \in BOOLEAN : getCachedToken_callback(i, e)
    \/ \E i \in 1..Len(tasks), ok \in BOOLEAN : validateToken_response(i, ok)
    \/ \E i \in 1..Len(tasks), r \in TokenAuthResponses : launchWebAuthFlow_callback(i, r)
    \/ \E i \in 1..Len(tasks) : cacheToken_callback(i)
    \/ \E i \in 1..Len(tasks) : timer_fires(i)
    \/ authenticate_entry
    \/ \E s \in {1} : authenticate_afterCache(s)
    \/ \E s \in {1} : authenticate_afterValidate(s)
    \/ authenticate_afterOAuth
    \/ authenticate_afterCacheToken
    \/ bgRefresh_entry
    \/ bgRefresh_afterSilent
    \/ bgRefresh_afterCacheToken
    \/ \E s \in {1} : performSilentAuth_entry(s)
    \/ \E s \in {1} : performSilentAuth_afterPrimary(s)
    \/ performSilentAuth_afterFallback

SpecToken == InitToken /\ [][NextToken]_vars

-----------------------------------------------------------------------------
(* SpecApi: the API client alone.  One makeApiCall at a time, as the         *)
(* discovery and mutation handlers call it, against every answer of the      *)
(* transport and of the identity provider.                                   *)

ApiRequests ==
    {Request("list", "GET", "s1"), Request("resume", "POST", "A"),
     Request("patch", "PATCH", "A")}

ApiStatuses == {0, 200, 202, 401, 403, 500}

ApiResponses ==
    {Response(st, "empty", <<>>) : st \in ApiStatuses}
    \cup {Response(st, "json", v) : st \in ApiStatuses \ {0}, v \in {<<"x">>}}
    \cup {Response(st, "bad", <<>>) : st \in ApiStatuses \ {0}}

ApiLifetimes == {0}
ApiAuthResponses == AuthFailures \cup AuthGrants(Tokens, ApiLifetimes)

InitApi ==
    /\ \E t \in Tokens \cup {NoToken} :
          /\ app = [InitApp EXCEPT !.accessToken = t]
          /\ store = IF t = NoToken THEN EmptyStore ELSE cacheEntry(t, 0, 0)
          /\ tasks \in IF t = NoToken THEN {<<>>} ELSE {<<>>, <<BgRefreshTask(t)>>}
    /\ ui = InitUi
    /\ now = 0
    /\ run = <<>>
    /\ ret = NoRet
    /\ obs = NoObs
    /\ ghost = InitGhost

\* a handler calls makeApiCall(url, method, body): no other call is pending, and
\* fewer than n tasks are
call_makeApiCall(req, n) ==
    /\ Idle
    /\ Rooted("makeApiCall") = {}
    /\ Len(tasks) < n
    /\ run' = <<MakeApiCallFrame(req)>>
    /\ ret' = NoRet
    /\ obs' = NoObs
    /\ UNCHANGED <<app, ui, store, now, tasks, ghost>>

NextApi ==
    \/ \E req \in ApiRequests : call_makeApiCall(req, MaxTasks)
    \/ \E i \in 1..Len(tasks) : timer_fires(i)
    \/ bgRefresh_entry
    \/ bgRefresh_afterSilent
    \/ bgRefresh_afterCacheToken
    \/ \E i \in 1..Len(tasks), r \in ApiResponses : fetch_response(i, r)
    \/ \E i \in 1..Len(tasks), e \in BOOLEAN : getCachedToken_callback(i, e)
    \/ \E i \in 1..Len(tasks), r \in ApiAuthResponses : launchWebAuthFlow_callback(i, r)
    \/ \E i \in 1..Len(tasks) : cacheToken_callback(i)
    \/ \E i \in 1..Len(tasks) : clearCachedAuth_callback(i)
    \/ \E i \in 1..Len(tasks), ok \in BOOLEAN : validateToken_response(i, ok)
    \/ makeApiCall_entry
    \/ makeApiCall_afterFetch
    \/ makeApiCall_afterExpiry
    \/ makeApiCall_afterAuthenticate
    \/ makeApiCall_afterRetry
    \/ handleTokenExpiry_entry
    \/ handleTokenExpiry_afterSilent
    \/ handleTokenExpiry_afterCacheToken
    \/ handleTokenExpiry_afterClear
    \/ \E s \in {1} : performSilentAuth_entry(s)
    \/ \E s \in {1} : performSilentAuth_afterPrimary(s)
    \/ performSilentAuth_afterFallback
    \/ authenticate_entry
    \/ \E s \in {1} : authenticate_afterCache(s)
    \/ \E s \in {1} : authenticate_afterValidate(s)
    \/ authenticate_afterOAuth
    \/ authenticate_afterCacheToken

SpecApi == InitApi /\ [][NextApi]_vars

-----------------------------------------------------------------------------
(* Spec: the popup from its construction, with the user, the timers, the     *)
(* identity provider and the management API as its environment.              *)

States == {"Active", "Paused"}
Skus == {"F2", "F4"}
Subscriptions == <<"s1", "s2">>

\* what the management API may list for a subscription
ScopeLists(subscriptionId) ==
    IF subscriptionId = "s1"
    THEN {<<Capacity("A", "Paused", "F2")>>, <<Capacity("A", "Active", "F2")>>,
          <<Capacity("A", "Paused", "F4")>>}
    ELSE {<<Capacity("B", "Paused", "F2"), Capacity("D", "Paused", "F2")>>}

\* the answers the management API may give to request req: any request may
\* fail, a listing may find the resource provider missing in the scope, the
\* credential stays good
Responses(req) ==
    {Response(500, "empty", <<>>)} \cup
    (IF req.kind = "subscriptions" THEN {Response(200, "json", Subscriptions)}
     ELSE IF req.kind = "list"
     THEN {Response(200, "json", v) : v \in ScopeLists(req.target)}
          \cup {Response(404, "json", <<>>)}
     ELSE {Response(202, "empty", <<>>)})

AuthFailure ==
    [kind |-> "lastError", state |-> 0, error |-> FALSE, accessToken |-> NoToken,
     expiresIn |-> 0]
AuthGrant == [kind |-> "url", state |-> 1, error |-> FALSE, accessToken |-> 1, expiresIn |-> 0]
AuthResponses == {AuthFailure, AuthGrant}

Init ==
    /\ app = InitApp
    /\ ui = InitUi
    /\ store = EmptyStore
    /\ now = 0
    /\ run = <<InitFrame>>
    /\ ret = NoRet
    /\ tasks = <<>>
    /\ obs = NoObs
    /\ ghost = InitGhost

\* what the user may do
Intents(n, c, m) ==
    \/ click_refresh(n, c)
    \/ click_start(n, c)
    \/ click_updateSku(n, c)
    \/ \E v \in 0..2 : change_capacitySelect(v, m)
    \/ \E k \in Skus : change_skuSelect(k, m)

\* the steps of discovery and of the mutations
Handlers ==
    \/ init_entry
    \/ init_afterAuthenticate
    \/ init_afterLoad
    \/ loadCapacities_entry
    \/ loadCapacities_afterAuthenticate
    \/ loadCapacities_afterSubscriptions
    \/ loadCapacities_afterCapacities
    \/ refreshCapacities_entry
    \/ refreshCapacities_afterLoad
    \/ refreshCapacities_afterCapacities
    \/ performCapacityOperation_entry
    \/ performCapacityOperation_afterCall
    \/ \E proceed \in BOOLEAN : updateCapacitySku_entry(proceed)
    \/ updateCapacitySku_afterCall
    \/ makeApiCall_entry
    \/ makeApiCall_afterFetch

\* an interactive acquisition, with an empty credential store
Acquisition ==
    \/ \E i \in 1..Len(tasks) : getCachedToken_callback(i, FALSE)
    \/ \E i \in 1..Len(tasks) : cacheToken_callback(i)
    \/ authenticate_entry
    \/ authenticate_afterCache(1)
    \/ authenticate_afterOAuth
    \/ authenticate_afterCacheToken

Next ==
    \/ Intents(MaxTasks, MaxClicks, MaxTasks + 1)
    \/ click_stop(MaxTasks, MaxClicks)
    \/ Handlers
    \/ Acquisition
    \/ \E i \in 1..Len(tasks) : timer_fires(i)
    \/ refreshTimer_entry
    \/ refreshTimer_afterRefresh
    \/ \E i \in Waiting("fetch") : \E r \in Responses(Top(tasks[i]).req) : fetch_response(i, r)
    \/ \E i \in 1..Len(tasks), r \in AuthResponses : launchWebAuthFlow_callback(i, r)

Spec == Init /\ [][Next]_vars

-----------------------------------------------------------------------------
(* SpecExpiry: as Spec, where the credential expires once, before one of the *)
(* mutations is answered, and the browser holds no session to renew it       *)
(* silently; the user changes a selection only while nothing is pending.     *)

ExpiryScopeLists(subscriptionId) ==
    IF subscriptionId = "s1"
    THEN {<<Capacity("A", "Paused", "F2")>>, <<Capacity("A", "Paused", "F4")>>,
          <<Capacity("A", "Active", "F2")>>, <<Capacity("C", "Paused", "F2")>>}
    ELSE {<<Capacity("B", "Paused", "F2")>>}

ExpiryResponses(req) ==
    IF req.kind = "subscriptions" THEN {Response(200, "json", Subscriptions)}
    ELSE IF req.kind = "list"
    THEN {Response(200, "json", v) : v \in ExpiryScopeLists(req.target)}
    ELSE IF ghost.unauthorized < MaxUnauthorized
    THEN {Response(401, "empty", <<>>), Response(202, "empty", <<>>)}
    ELSE {Response(202, "empty", <<>>)}

ExpiryAuthResponses(interactive) ==
    IF interactive THEN {AuthFailure, AuthGrant} ELSE {AuthFailure}

NextExpiry ==
    \/ Intents(MaxTasks, MaxClicks + 1, MaxTasks - 1)
    \/ click_stop(MaxTasks, MaxClicks + 1)
    \/ Handlers
    \/ Acquisition
    \/ \E i \in Waiting("fetch") :
          \E r \in ExpiryResponses(Top(tasks[i]).req) : fetch_response(i, r)
    \/ \E i \in Waiting("launchWebAuthFlow") :
          \E r \in ExpiryAuthResponses(Top(tasks[i]).interactive) :
              launchWebAuthFlow_callback(i, r)
    \/ \E i \in 1..Len(tasks) : clearCachedAuth_callback(i)
    \/ \E i \in 1..Len(tasks) : timer_fires(i)
    \/ refreshTimer_entry
    \/ refreshTimer_afterRefresh
    \/ makeApiCall_afterExpiry
    \/ makeApiCall_afterAuthenticate
    \/ makeApiCall_afterRetry
    \/ handleTokenExpiry_entry
    \/ handleTokenExpiry_afterSilent
    \/ handleTokenExpiry_afterClear
    \/ performSilentAuth_entry(1)
    \/ performSilentAuth_afterPrimary(1)
    \/ performSilentAuth_afterFallback

SpecExpiry == Init /\ [][NextExpiry]_vars

-----------------------------------------------------------------------------
(* SpecLogout: as Spec, with the logout button; the management API answers   *)
(* every request.                                                            *)

LogoutResponses(req) ==
    IF req.kind = "subscriptions" THEN {Response(200, "json", Subscriptions)}
    ELSE IF req.kind = "list"
    THEN {Response(200, "json", v) : v \in ScopeLists(req.target)}
    ELSE {Response(202, "empty", <<>>)}

NextLogout ==
    \/ Intents(MaxTasks, MaxClicks, MaxTasks)
    \/ click_stop(MaxTasks, MaxClicks)
    \/ click_logout(MaxTasks, MaxClicks)
    \/ handleLogout_entry
    \/ handleLogout_afterClear
    \/ Handlers
    \/ Acquisition
    \/ \E i \in 1..Len(tasks) : clearCachedAuth_callback(i)
    \/ \E i \in 1..Len(tasks) : timer_fires(i)
    \/ refreshTimer_entry
    \/ refreshTimer_afterRefresh
    \/ \E i \in Waiting("fetch") :
          \E r \in LogoutResponses(Top(tasks[i]).req) : fetch_response(i, r)
    \/ \E i \in 1..Len(tasks), r \in AuthResponses : launchWebAuthFlow_callback(i, r)

SpecLogout == Init /\ [][NextLogout]_vars

-----------------------------------------------------------------------------
(* SpecBearer: SpecToken, with the API client called between the            *)
(* authentications while the clock runs: the transport answers or fails, the *)
(* credential is not refused.                                                *)

BearerResponses == {Response(200, "json", <<"x">>), Response(500, "empty", <<>>)}

NextBearer ==
    \/ NextToken
    \/ call_makeApiCall(Request("list", "GET", "s1"), 1)
    \/ makeApiCall_entry
    \/ \E i \in 1..Len(tasks), r \in BearerResponses : fetch_response(i, r)
    \/ makeApiCall_afterFetch

SpecBearer == InitToken /\ [][NextBearer]_vars

-----------------------------------------------------------------------------
(* SpecRenewal: the popup stays open after init has signed in: the clock     *)
(* runs, the interval of startTokenRefreshTimer elapses, and the background   *)
(* refresh that authenticate set after a cache hit may still be pending.      *)

RenewalExpiries == {3, 16}

InitRenewal ==
    /\ \E t \in Tokens, e \in RenewalExpiries :
          /\ app = [InitApp EXCEPT !.accessToken = t, !.initialLoadComplete = TRUE,
                                   !.refreshInterval = TRUE]
          /\ store = [cacheEntry(t, 0, 0) EXCEPT !.tokenExpiry = e]
          /\ tasks \in {<<>>, <<BgRefreshTask(t)>>}
    /\ ui = [InitUi EXCEPT !.tenantShown = TRUE]
    /\ now = 0
    /\ run = <<>>
    /\ ret = NoRet
    /\ obs = NoObs
    /\ ghost = InitGhost

NextRenewal ==
    \/ Tick
    \/ interval_fires
    \/ tokenRefreshTimer_entry
    \/ tokenRefreshTimer_afterCache
    \/ tokenRefreshTimer_afterExpiry
    \/ tokenRefreshTimer_afterSilent
    \/ tokenRefreshTimer_afterCacheToken
    \/ \E i \in 1..Len(tasks) : storageGet_callback(i)
    \/ \E i \in 1..Len(tasks), e \in BOOLEAN : getCachedToken_callback(i, e)
    \/ \E i \in 1..Len(tasks) : cacheToken_callback(i)
    \/ \E i \in 1..Len(tasks), r \in TokenAuthResponses : launchWebAuthFlow_callback(i, r)
    \/ \E i \in 1..Len(tasks) : timer_fires(i)
    \/ bgRefresh_entry
    \/ bgRefresh_afterSilent
    \/ bgRefresh_afterCacheToken
    \/ performSilentAuth_entry(1)
    \/ performSilentAuth_afterPrimary(1)
    \/ performSilentAuth_afterFallback

SpecRenewal == InitRenewal /\ [][NextRenewal]_vars

\* SpecRenewalLogout: as SpecRenewal, with the logout button
NextRenewalLogout ==
    \/ NextRenewal
    \/ click_logout(MaxTasks, 1)
    \/ handleLogout_entry
    \/ handleLogout_afterClear
    \/ \E i \in 1..Len(tasks) : clearCachedAuth_callback(i)

SpecRenewalLogout == InitRenewal /\ [][NextRenewalLogout]_vars

\* SpecSchedule: the interval elapsing on time over the life of one cached
\* credential, which no silent flow replaces
MaxLifetime == 40

InitSchedule ==
    /\ \E t \in Tokens, e \in 1..MaxLifetime :
          /\ app = [InitApp EXCEPT !.accessToken = t, !.initialLoadComplete = TRUE,
                                   !.refreshInterval = TRUE]
          /\ store = [cacheEntry(t, 0, 0) EXCEPT !.tokenExpiry = e]
    /\ ui = [InitUi EXCEPT !.tenantShown = TRUE]
    /\ now = 0
    /\ run = <<>>
    /\ ret = NoRet
    /\ tasks = <<>>
    /\ obs = NoObs
    /\ ghost = InitGhost

NextSchedule ==
    \/ interval_elapses
    \/ tokenRefreshTimer_entry
    \/ tokenRefreshTimer_afterCache
    \/ tokenRefreshTimer_afterExpiry
    \/ tokenRefreshTimer_afterSilent
    \/ \E i \in 1..Len(tasks) : storageGet_callback(i)
    \/ \E i \in 1..Len(tasks) : getCachedToken_callback(i, FALSE)
    \/ \E i \in 1..Len(tasks), r \in AuthFailures : launchWebAuthFlow_callback(i, r)
    \/ performSilentAuth_entry(1)
    \/ performSilentAuth_afterPrimary(1)
    \/ performSilentAuth_afterFallback

SpecSchedule == InitSchedule /\ [][NextSchedule]_vars

\* SpecRestart: the interval of a session whose storage reads succeed, and later
\* calls of authenticate (from loadCapacities or makeApiCall)
NextRestart ==
    \/ call_authenticate(1)
    \/ Tick
    \/ interval_fires
    \/ tokenRefreshTimer_entry
    \/ tokenRefreshTimer_afterCache
    \/ tokenRefreshTimer_afterExpiry
    \/ tokenRefreshTimer_afterSilent
    \/ tokenRefreshTimer_afterCacheToken
    \/ \E i \in 1..Len(tasks) : storageGet_callback(i)
    \/ \E i \in 1..Len(tasks) : getCachedToken_callback(i, FALSE)
    \/ \E i \in 1..Len(tasks) : cacheToken_callback(i)
    \/ \E i \in 1..Len(tasks), ok \in BOOLEAN : validateToken_response(i, ok)
    \/ \E i \in 1..Len(tasks), r \in ApiAuthResponses : launchWebAuthFlow_callback(i, r)
    \/ \E i \in 1..Len(tasks) : timer_fires(i)
    \/ authenticate_entry
    \/ authenticate_afterCache(1)
    \/ authenticate_afterValidate(1)
    \/ authenticate_afterOAuth
    \/ authenticate_afterCacheToken
    \/ bgRefresh_entry
    \/ bgRefresh_afterSilent
    \/ bgRefresh_afterCacheToken
    \/ performSilentAuth_entry(1)
    \/ performSilentAuth_afterPrimary(1)
    \/ performSilentAuth_afterFallback

\* the session of init has adopted no cached credential: no delayed refresh is
\* pending at the start
InitRestart == InitRenewal /\ tasks = <<>>

SpecRestart == InitRestart /\ [][NextRestart]_vars

-----------------------------------------------------------------------------
(* Properties *)

\* C1: a cached credential with expiresAt - now < buffer (2 minutes) is not
\* returned by the cache read, and authenticate does not adopt it but goes on
\* to performOAuth2Flow.
C1_ExpiryBuffer ==
    /\ (/\ obs.op = "getCachedToken"
        /\ obs.snap.accessToken # NoToken
        /\ obs.snap.tokenExpiry - obs.at < bufferTime) => obs.result = NoToken
    /\ \A i \in 1..Len(Stacks) : \A j \in 1..Len(Stacks[i]) :
          LET f == Stacks[i][j]
          IN  (f.fn = "authenticate" /\ f.staleRead)
                  => f.cached = NoToken /\ f.pc \in {"afterOAuth", "afterCacheToken"}
    /\ obs.op = "adoptCached" => ~obs.staleRead

\* C1 witness: authenticate read a credential inside the buffer and is waiting
\* for the interactive authorization it started instead.
C1_Witness ==
    \E i \in 1..Len(tasks) :
        /\ Len(tasks[i]) >= 2
        /\ Top(tasks[i]).fn = "launchWebAuthFlow" /\ Top(tasks[i]).interactive
        /\ tasks[i][Len(tasks[i]) - 1].fn = "authenticate"
        /\ tasks[i][Len(tasks[i]) - 1].staleRead

\* C2 (as claimed): with a fingerprint stored, every change of the stored token
\* that leaves the fingerprint as it was makes the next cache read a miss.
C2_FingerprintGuard ==
    (/\ obs.op = "getCachedToken"
     /\ obs.changedOutside
     /\ obs.snap.sessionInfo # NoSession) => obs.result = NoToken

\* C3: a makeApiCall whose first response is 401, whose silent renewal yields a
\* credential and whose retried response is a success (with a body that is
\* empty or JSON) has called fetch exactly twice and resolves to the result of
\* the retried response: its parsed body, or the success marker where that
\* response is an accepted POST/PATCH.
C3_RetryThenSucceed ==
    (/\ obs.op = "apiDone"
     /\ obs.first = 401
     /\ obs.path = "silent"
     /\ Ok(obs.retry)
     /\ obs.retry.body # "bad")
    => /\ obs.fetches = 2
       /\ obs.k = "val"
       /\ obs.result.kind = "body"
             => obs.result.value = (IF obs.retry.body = "json" THEN obs.retry.value ELSE <<>>)
       /\ obs.result.kind = "marker"
             => obs.req.method \in {"POST", "PATCH"} /\ obs.retry.status \in {200, 202}
       /\ obs.req.method = "GET" => obs.result.kind = "body"

\* C3 witness: a GET answered 401, renewed silently, retried and answered with
\* a JSON body, has resolved to that body.
C3_Witness ==
    /\ obs.op = "apiDone"
    /\ obs.first = 401 /\ obs.path = "silent" /\ obs.fetches = 2
    /\ obs.req.method = "GET"
    /\ Ok(obs.retry) /\ obs.retry.body = "json"
    /\ obs.k = "val" /\ obs.result.value = <<"x">>

\* C4 (amended): a makeApiCall whose first response is 401 runs exactly one
\* silent renewal.  If it yields a credential, the request is sent once more,
\* with that credential, and no interactive acquisition is made.  If not,
\* authenticate is called once and makes at most one interactive acquisition;
\* the request is sent once more if and only if authenticate succeeds, and
\* otherwise the call ends with authenticate's error after a single send.  The
\* request is never sent more than twice, and a retried response that is not a
\* success ends the call with an error.
C4_RetryBound ==
    (obs.op = "apiDone" /\ obs.first = 401)
    => /\ obs.silents = 1
       /\ obs.fetches <= 2
       /\ obs.path \in {"silent", "interactive"}
       /\ obs.path = "silent"
             => /\ obs.fetches = 2
                /\ obs.renewed # NoToken /\ obs.bearer = obs.renewed
                /\ obs.authenticates = 0 /\ obs.launches = 0
       /\ obs.path = "interactive"
             => /\ obs.authenticates = 1
                /\ obs.launches <= 1
                /\ obs.authOk => obs.fetches = 2
                /\ ~obs.authOk => obs.fetches = 1 /\ obs.k = "exc"
       /\ (obs.fetches = 2 /\ ~Ok(obs.retry)) => obs.k = "exc"

\* C4 witness: 401, failed silent renewal, one interactive acquisition, and a
\* retried request that failed again: the call ended with an error.
C4_Witness ==
    /\ obs.op = "apiDone"
    /\ obs.first = 401 /\ obs.path = "interactive"
    /\ obs.launches = 1 /\ obs.fetches = 2
    /\ obs.retry.status = 401
    /\ obs.k = "exc"

\* C4 (as claimed): whenever the silent renewal after a 401 fails, exactly one
\* interactive acquisition is made and the request is retried once.
C4_AsClaimed ==
    (obs.op = "apiDone" /\ obs.first = 401 /\ obs.path = "interactive")
    => obs.launches = 1 /\ obs.fetches = 2

\* C5: right after a click on the start button has sent its POST .../resume, the
\* start button is disabled, so that a second click in immediate succession
\* dispatches nothing, and that click's task has sent one request, the resume.
C5_OneStartCall ==
    (Idle /\ obs.op = "fetch" /\ obs.req.kind = "resume" /\ ~obs.retry)
    => /\ ui.startDisabled
       /\ LET t == tasks[Len(tasks)]
          IN  /\ Len(t) = 3
              /\ t[1].fn = "performCapacityOperation" /\ t[1].pc = "afterCall"
              /\ t[2].fn = "makeApiCall" /\ t[2].fetches = 1
              /\ t[3].fn = "fetch" /\ t[3].req = obs.req

\* C5 witness: the start click's POST is out and the start button is disabled.
C5_Witness ==
    /\ Idle /\ obs.op = "fetch" /\ obs.req.kind = "resume" /\ ~obs.retry
    /\ obs.req.method = "POST" /\ obs.req.target = "A"
    /\ ui.startDisabled

\* the mutations (resume, suspend, sku PATCH) in flight for resource id
MutationsInFlight(id) ==
    {i \in 1..Len(tasks) :
        /\ tasks[i][1].fn \in {"performCapacityOperation", "updateCapacitySku"}
        /\ tasks[i][1].pc = "afterCall"
        /\ tasks[i][1].id = id}

\* C6 (as claimed): in every reachable state at most one mutation is in flight
\* for any one resource.
C6_OneMutationPerResource ==
    \A id \in {"A", "B"} : Cardinality(MutationsInFlight(id)) <= 1

C8_SelectionContinuity ==
    (obs.op = "passDone" /\ obs.refresh /\ obs.was # "")
    => IF \E i \in 1..Len(obs.capacities) : obs.capacities[i].id = obs.was
       THEN obs.sel # 0 /\ obs.capacities[obs.sel].id = obs.was
       ELSE obs.sel = 0

\* C9: updateCapacitySku, when the sku chosen in the SKU dropdown is the sku of
\* the selected capacity, returns without calling the API and leaves the
\* controls, the capacities and the credential as they were.
C9_SkuNoOp ==
    [][(/\ At("updateCapacitySku", "entry")
        /\ ui.sel \in 1..Len(app.capacities)
        /\ ui.skuValue = app.capacities[ui.sel].sku)
       => (run' = <<>> /\ tasks' = tasks /\ app' = app /\ ui' = ui /\ store' = store)]_vars

\* C9 witness: updateCapacitySku has just turned such a request down.
C9_Witness == obs.op = "noSkuChange" /\ Idle

\* the discovery passes in flight: the stacks with a loadCapacities, or with a
\* refreshCapacities past its checks
PassesInFlight ==
    {i \in 1..Len(Stacks) :
        \E j \in 1..Len(Stacks[i]) :
            \/ Stacks[i][j].fn = "loadCapacities"
            \/ Stacks[i][j].fn = "refreshCapacities" /\ Stacks[i][j].pc # "entry"}

\* C10 (as claimed): at most one discovery pass is in flight at any time.
C10_OnePass == Cardinality(PassesInFlight) <= 1

\* C11 (as claimed): while a mutation is pending for a resource and the event
\* loop is idle, the refresh button is disabled and, if that resource is the
\* selected one, so are the start, stop and update-sku buttons.
C11_PendingControlsDisabled ==
    \A i \in 1..Len(tasks) :
        (/\ Idle
         /\ tasks[i][1].fn \in {"performCapacityOperation", "updateCapacitySku"}
         /\ tasks[i][1].pc = "afterCall")
        => /\ ui.refreshDisabled
           /\ (ui.sel \in 1..Len(app.capacities)
                  /\ app.capacities[ui.sel].id = tasks[i][1].id)
              => /\ ui.startDisabled
                 /\ ui.stopDisabled
                 /\ ui.updateSkuDisabled \/ ~ui.skuShown

\* C12 (as claimed): a start, stop or sku-change request that was sent is for
\* the resource whose option was the selected one when the button was clicked.
C12_SelectedTarget ==
    \A i \in 1..Len(Stacks) :
        (/\ Stacks[i][1].fn \in {"performCapacityOperation", "updateCapacitySku"}
         /\ Stacks[i][1].pc = "afterCall")
        => Stacks[i][1].id = Stacks[i][1].shown

\* C13 (as claimed): a request that makeApiCall sends carries the current
\* credential, and that credential is unexpired with respect to the buffer
\* (judged where the store holds the expiry of that very credential); a call
\* made without a credential sends nothing and fails.
C13_ValidBearer ==
    /\ obs.op = "fetch"
          => /\ obs.bearer # NoToken
             /\ obs.bearer = app.accessToken
             /\ (store.accessToken = obs.bearer /\ ~ghost.tampered)
                   => now < store.tokenExpiry - bufferTime
    /\ (obs.op = "apiDone" /\ obs.bearer = NoToken)
          => obs.fetches = 0 /\ obs.k = "exc"

\* C14: an authorization response (interactive or silent) whose echoed state is
\* not the state of the request is rejected with the state-mismatch error, and
\* no step that handles that error changes the credential in memory or the
\* credential store.
C14_StateMismatchRejected ==
    /\ []((obs.op = "auth" /\ obs.kind = "url" /\ ~obs.stateOk)
            => ret = Exc(StateMismatch) /\ ~obs.granted)
    /\ [][(ret = Exc(StateMismatch))
            => (app'.accessToken = app.accessToken /\ store' = store)]_vars

\* C14 witness: a silent authorization response that carries a token under
\* another state has just been rejected.
C14_Witness ==
    /\ obs.op = "auth" /\ ~obs.interactive
    /\ obs.kind = "url" /\ ~obs.stateOk /\ obs.offered # NoToken
    /\ ret = Exc(StateMismatch)

\* C15: when the silent request for the primary scope fails, performSilentAuth
\* makes the request for the fallback scopes; when that fails too it returns
\* the null result; its caller never resumes with an exception.
C15_SilentFailureSwallowed ==
    /\ [][(At("performSilentAuth", "afterPrimary") /\ ret.k = "exc")
            => /\ run' = <<>>
               /\ Len(tasks') = Len(tasks) + 1
               /\ Top(tasks'[Len(tasks')]).fn = "launchWebAuthFlow"
               /\ ~Top(tasks'[Len(tasks')]).interactive]_vars
    /\ [][(At("performSilentAuth", "afterFallback") /\ ret.k = "exc")
            => (run' = Pop(run) /\ ret' = Val(NullInfo))]_vars
    /\ []((run # <<>> /\ Top(run).pc = "afterSilent") => ret.k = "val")

\* C15 witness: handleTokenExpiry resumes with the null result after both
\* silent requests failed.
C15_Witness ==
    /\ At("handleTokenExpiry", "afterSilent")
    /\ ret = Val(NullInfo)

\* C16 (as claimed): when handleLogout returns, the store holds no token,
\* expiry or fingerprint, accessToken is null, the tenant display is cleared,
\* this.capacities is empty and the start, stop and update-sku buttons are
\* disabled.
C16_LoggedOut ==
    obs.op = "logoutDone"
    => /\ store = EmptyStore
       /\ app.accessToken = NoToken
       /\ ~ui.tenantShown
       /\ app.capacities = <<>>
       /\ ui.startDisabled /\ ui.stopDisabled /\ ui.updateSkuDisabled

\* C17: a makeApiCall whose first response is 403 has called fetch once, has
\* attempted no renewal and no acquisition, ends with the permission error, and
\* the step that handles the 403 leaves the credential and the store alone.
C17_ForbiddenNotRetried ==
    /\ []((obs.op = "apiDone" /\ obs.first = 403)
            => /\ obs.fetches = 1
               /\ obs.silents = 0 /\ obs.authenticates = 0 /\ obs.launches = 0
               /\ obs.k = "exc" /\ obs.result = 403)
    /\ [][(At("makeApiCall", "afterFetch") /\ ret.v.status = 403)
            => (run' = Pop(run) /\ app' = app /\ store' = store)]_vars

\* C17 witness: a call answered 403 has ended with the error after one fetch.
C17_Witness ==
    /\ obs.op = "apiDone" /\ obs.first = 403
    /\ obs.fetches = 1 /\ obs.k = "exc"

C19_AcceptedIsMarker ==
    (/\ obs.op = "apiDone"
     /\ obs.req.method \in {"POST", "PATCH"}
     /\ \/ obs.fetches = 1 /\ obs.first = 202
        \/ obs.fetches = 2 /\ obs.retry.status = 202)
    => obs.k = "val" /\ obs.result.kind = "marker"

\* C19 witness: a POST answered 202 with an empty body has resolved to the
\* marker.
C19_Witness ==
    /\ obs.op = "apiDone" /\ obs.req.method = "POST"
    /\ obs.fetches = 1 /\ obs.first = 202 /\ obs.okBody = "empty"
    /\ obs.k = "val" /\ obs.result.kind = "marker"

\* C20 (as claimed, the state a mutation ends in): when a mutation ends, on
\* success or failure, the refresh button is enabled, the start and stop buttons
\* are those of the state of the selected capacity in this.capacities (both
\* disabled when nothing is selected), and a failure was logged as an error.
C20_BackToIdle ==
    obs.op = "mutationDone"
    => /\ ~ui.refreshDisabled
       /\ IF ui.sel = 0 THEN ui.startDisabled /\ ui.stopDisabled
          ELSE /\ ui.sel <= Len(app.capacities)
               /\ ui.startDisabled = (app.capacities[ui.sel].state = "Active")
               /\ ui.stopDisabled = (app.capacities[ui.sel].state = "Paused")
       /\ obs.failed => obs.errorLogged

\* the snapshot of capacity id in this.capacities: 0 when it is not listed
indexOf(caps, id) ==
    IF \E i \in 1..Len(caps) : caps[i].id = id
    THEN CHOOSE i \in 1..Len(caps) : caps[i].id = id /\ \A j \in 1..(i - 1) : caps[j].id # id
    ELSE 0

\* the controls show capacity i of caps: it is selected, and the buttons and
\* the SKU dropdown are those of its state and sku
Shows(u, caps, i) ==
    /\ u.sel = i
    /\ u.startDisabled = (caps[i].state = "Active")
    /\ u.stopDisabled = (caps[i].state = "Paused")
    /\ u.skuShown /\ u.skuValue = caps[i].sku

\* C21 (as claimed): a mutation that succeeded sets one timer for a refresh and
\* a mutation that failed sets none; and when the callback of such a timer
\* has run for a capacity that was still selected when it fired and is in the
\* refreshed this.capacities, the controls show the refreshed snapshot of it.
C21_RefreshAfterMutation ==
    /\ [](obs.op = "timerDone"
          => /\ ~obs.skipped
             /\ (obs.was = obs.id /\ indexOf(app.capacities, obs.id) # 0)
                => Shows(ui, app.capacities, indexOf(app.capacities, obs.id)))
    /\ [][(At("performCapacityOperation", "afterCall") \/ At("updateCapacitySku", "afterCall"))
           => IF ret.k = "val"
              THEN /\ Len(tasks') = Len(tasks) + 1
                   /\ tasks'[Len(tasks')][1].fn = "refreshTimer"
                   /\ tasks'[Len(tasks')][1].id = Top(run).id
                   /\ tasks'[Len(tasks')][2].fn = "timer"
              ELSE tasks' = tasks]_vars

\* C22 (as claimed): when performCapacityOperation sends its POST, the capacity
\* it is for is not, in this.capacities, already in the state the call asks
\* for: no resume for a capacity listed as Active, no suspend for one listed as
\* Paused.
C22_NoRedundantCall ==
    (obs.op = "fetch" /\ ~obs.retry /\ obs.req.kind \in {"resume", "suspend"}
     /\ indexOf(app.capacities, obs.req.target) # 0)
    => \E i \in 1..Len(app.capacities) :
          /\ app.capacities[i].id = obs.req.target
          /\ app.capacities[i].state
                # (IF obs.req.kind = "resume" THEN "Active" ELSE "Paused")

\* C23: when updateCapacitySku is to change the sku of a capacity listed as
\* Active, confirm() is asked; on a negative answer it returns with no call
\* started and the controls, the capacities and the credential as they were,
\* and only on a positive answer does it go on to the PATCH.
C23_ConfirmBeforePatch ==
    [][(/\ At("updateCapacitySku", "entry")
        /\ ui.sel \in 1..Len(app.capacities)
        /\ ui.skuValue \notin {"", app.capacities[ui.sel].sku}
        /\ app.capacities[ui.sel].state = "Active")
       => /\ obs'.op = "confirm"
          /\ IF obs'.proceed
             THEN /\ Top(run').fn = "makeApiCall"
                  /\ Top(run').req = Request("patch", "PATCH", app.capacities[ui.sel].id)
             ELSE /\ run' = <<>> /\ tasks' = tasks
                  /\ ui' = ui /\ app' = app /\ store' = store]_vars

\* C23 witness: the user has declined the sku change of an Active capacity.
C23_Witness == obs.op = "confirm" /\ ~obs.proceed /\ Idle

\* C24 (as claimed): when a failure ends an operation (authenticate, init,
\* loadCapacities, start, stop, sku update), the log area has got exactly one
\* ERROR entry from it, the layers it passed through included.
C24_OneErrorEntry ==
    /\ obs.op = "failed" => obs.errors = 1
    /\ (obs.op = "mutationDone" /\ obs.failed) => obs.errors = 1

\* C25: with no credential in memory (as handleLogout leaves it),
\* refreshCapacities hands over to loadCapacities, which calls authenticate
\* before anything else; when authenticate has succeeded the subscriptions are
\* listed and the pass, when it ends, has enumerated every subscription and
\* rebuilt the dropdown from this.capacities; when authenticate has failed no
\* request follows; and no request is ever sent without a credential.
C25_ReauthenticateThenDiscover ==
    /\ [](obs.op = "fetch" => obs.bearer # NoToken)
    /\ []((obs.op = "passDone" /\ obs.pass = "loadCapacities")
          => /\ [k \in 1..Len(obs.got) |-> obs.got[k].scope] = Subscriptions
             /\ obs.options = [i \in 1..Len(obs.capacities) |-> obs.capacities[i].id])
    /\ [][(At("refreshCapacities", "entry") /\ app.accessToken = NoToken)
           => Top(run') = LoadCapacitiesFrame]_vars
    /\ [][(At("loadCapacities", "entry") /\ app.accessToken = NoToken)
           => Top(run') = AuthenticateFrame]_vars
    /\ [][At("loadCapacities", "afterAuthenticate")
           => IF ret.k = "val"
              THEN Top(run') = MakeApiCallFrame(Request("subscriptions", "GET", ""))
              ELSE Len(run') < Len(run) /\ tasks' = tasks]_vars

\* C25 witness: a full discovery has ended that a refresh started after a
\* logout, with a credential obtained on the way.
C25_Witness ==
    /\ obs.op = "passDone" /\ obs.pass = "loadCapacities" /\ obs.refresh
    /\ ghost.loggedOut /\ app.accessToken # NoToken
    /\ obs.capacities # <<>>

\* the subscriptions of the capacities in caps
Owners(caps) == {caps[i].subscriptionId : i \in 1..Len(caps)}

\* C26: a pass of refreshCapacities that has listed anything has listed the
\* subscriptions of the capacities that were in this.capacities when it began,
\* each once and no other; and with no capacity in this.capacities
\* refreshCapacities lists nothing itself and calls loadCapacities.
C26_RefreshScopes ==
    /\ []((obs.op = "passDone" /\ obs.pass = "refreshCapacities")
          => /\ {obs.got[k].scope : k \in 1..Len(obs.got)} = Owners(obs.had)
             /\ Len(obs.got) = Cardinality(Owners(obs.had)))
    /\ [][(At("refreshCapacities", "entry") /\ app.accessToken # NoToken /\ ~ui.loading)
           => IF app.capacities = <<>>
              THEN Top(run') = LoadCapacitiesFrame
              ELSE /\ Top(run').fn = "makeApiCall"
                   /\ Top(run').req.kind = "list"
                   /\ Top(run').req.target \in Owners(app.capacities)]_vars

\* C26 witness: a refresh has ended that began with two capacities of one
\* subscription among three.
C26_Witness ==
    /\ obs.op = "passDone" /\ obs.pass = "refreshCapacities"
    /\ Len(obs.had) = 3 /\ Cardinality(Owners(obs.had)) = 2
    /\ Len(obs.got) = 2

\* C27: a tick of the interval goes on to performSilentAuth exactly when
\* getCachedToken gave it a token and the expiry it then read is less than 15
\* minutes and more than 0 minutes away; and when performSilentAuth gives a
\* token, it becomes this.accessToken and is written to the store with its
\* expiry and fingerprint.
C27_ProactiveRenewal ==
    /\ [](obs.op = "tick"
          => ((run # <<>> /\ Top(run).fn = "performSilentAuth")
              <=> (/\ obs.cachedToken # NoToken
                   /\ obs.tokenExpiry - obs.at < 15
                   /\ obs.tokenExpiry - obs.at > 0)))
    /\ [][(At("tokenRefreshTimer", "afterSilent") /\ ret.v.accessToken # NoToken)
           => /\ app'.accessToken = ret.v.accessToken
              /\ store' = [accessToken |-> ret.v.accessToken,
                           tokenExpiry |-> now + ret.v.expiresIn,
                           sessionInfo |-> <<TokenHash(ret.v.accessToken)>>]]_vars

\* C27 witness: a tick has renewed the credential, and the new token is the one
\* in memory and in the store.
C27_Witness ==
    /\ obs.op = "renewed" /\ obs.by = "tokenRefreshTimer" /\ obs.ok
    /\ app.accessToken = store.accessToken

\* C28: while a background renewal runs (a tick of the interval, or the delayed
\* refresh authenticate sets up after a cache hit), every step of it other than
\* the one that receives a new token leaves this.accessToken and the store as
\* they were, writes no ERROR entry and changes nothing on the page; when
\* performSilentAuth gave it no token, it ends there with no exception left.
C28_FailedRenewalSilent ==
    [][LET Background == {"tokenRefreshTimer", "bgRefresh"}
           stk        == IF run # <<>> THEN run ELSE run'
           renews     == /\ run # <<>>
                         /\ Top(run).fn \in Background
                         /\ Top(run).pc = "afterSilent"
                         /\ ret.v.accessToken # NoToken
       IN  (stk # <<>> /\ stk[1].fn \in Background)
           => /\ ~renews => /\ app'.accessToken = app.accessToken
                            /\ store' = store
              /\ ghost'.errors = 0
              /\ (~renews /\ ~At("tokenRefreshTimer", "afterCacheToken")) => ui' = ui
              /\ (run # <<>> /\ Top(run).fn \in Background /\ Top(run).pc = "afterSilent"
                  /\ ret.v.accessToken = NoToken)
                 => run' = <<>> /\ ret' = NoRet /\ tasks' = tasks]_vars

\* C28 witness: a tick of the interval got no token from performSilentAuth, and
\* the credential in memory is still the one in the store.
C28_Witness ==
    /\ obs.op = "renewed" /\ ~obs.ok /\ obs.by = "tokenRefreshTimer"
    /\ run = <<>>
    /\ app.accessToken # NoToken /\ app.accessToken = store.accessToken

\* C29: authenticate makes a cached token this.accessToken only in the step
\* that receives true from validateToken for that token; when validateToken
\* gives false, the token is not adopted and the interactive flow is launched;
\* and when authenticate then ends in failure, the store no longer holds the
\* token the probe was refused for.
C29_ProbeBeforeAdopt ==
    /\ [][obs'.op = "adoptCached"
           => /\ At("authenticate", "afterValidate")
              /\ ret = Val(TRUE)
              /\ Top(run).cached # NoToken
              /\ app'.accessToken = Top(run).cached]_vars
    /\ [][(At("authenticate", "afterValidate") /\ ret = Val(FALSE))
           => /\ app'.accessToken = app.accessToken
              /\ Len(tasks') = Len(tasks) + 1
              /\ Top(tasks'[Len(tasks')]).fn = "launchWebAuthFlow"]_vars
    /\ [][(At("authenticate", "afterOAuth") /\ ret.k = "exc" /\ Top(run).cached # NoToken)
           => store'.accessToken # Top(run).cached]_vars

C31_UpdateSkuOnlyWhenDifferent ==
    (ui.skuShown /\ ~ui.updateSkuDisabled)
    => /\ ui.sel # 0
       /\ ui.sel <= Len(app.capacities)
       /\ ui.skuValue # app.capacities[ui.sel].sku

\* C32: once handleLogout has completed, and with no sign-in started by the
\* user since, this.accessToken is null and the store holds no credential.
C32_LoggedOutStaysOut ==
    ghost.loggedOut => (app.accessToken = NoToken /\ store = EmptyStore)

\* C33: when handleTokenExpiry gets no token from performSilentAuth while
\* this.accessToken is a token other than the one the refused request carried
\* (a renewal that ran meanwhile has installed it), handleTokenExpiry leaves
\* this.accessToken and the store as they are.
C33_RenewedCredentialKept ==
    [][(/\ At("handleTokenExpiry", "afterSilent")
        /\ ret.v.accessToken = NoToken
        /\ Len(run) > 1
        /\ run[Len(run) - 1].fn = "makeApiCall"
        /\ app.accessToken # NoToken
        /\ app.accessToken # run[Len(run) - 1].bearer)
       => (app'.accessToken = app.accessToken /\ store' = store)]_vars

\* C34: in every state with nothing running and nothing pending that a step of
\* authenticate or of a renewal has just led to, this.accessToken and the
\* accessToken of the store are the same token, or both are absent.
C34_MemoryAgreesWithStore ==
    (run = <<>> /\ tasks = <<>> /\ obs.op \in {"failed", "renewed"})
    => app.accessToken = store.accessToken

\* C35: whenever neither loadCapacities nor refreshCapacities is in progress,
\* the capacity dropdown lists exactly the capacities of this.capacities, one
\* option each, in their order.
C35_OptionsMatchCapacities ==
    (\A i \in 1..Len(Stacks) :
        \A j \in 1..Len(Stacks[i]) :
           Stacks[i][j].fn \notin {"loadCapacities", "refreshCapacities"})
    => ui.options = [i \in 1..Len(app.capacities) |-> app.capacities[i].id]

\* C36: whenever no mutation is pending, an enabled Start or Stop button means
\* that a capacity of this.capacities is selected, that Start is disabled
\* exactly when that capacity is Active and Stop exactly when it is Paused.
C36_StartStopMatchSelection ==
    ((\A i \in 1..Len(Stacks) :
         \A j \in 1..Len(Stacks[i]) :
            Stacks[i][j].fn \notin {"performCapacityOperation", "updateCapacitySku"})
     /\ (~ui.startDisabled \/ ~ui.stopDisabled))
    => /\ ui.sel # 0
       /\ ui.sel <= Len(app.capacities)
       /\ ui.startDisabled <=> app.capacities[ui.sel].state = "Active"
       /\ ui.stopDisabled <=> app.capacities[ui.sel].state = "Paused"

\* C37: whenever nothing runs and nothing is pending, and the token in memory is
\* the stored one and getCachedToken would return it, the interval of
\* startTokenRefreshTimer is set.
C37_RenewalStaysActive ==
    (/\ run = <<>> /\ tasks = <<>>
     /\ app.accessToken # NoToken
     /\ app.accessToken = store.accessToken
     /\ getCachedToken(store, FALSE, now) # NoToken)
    => app.refreshInterval

\* C38: with the interval elapsing every 10 minutes, a tick goes on to
\* performSilentAuth exactly when the credential has more than 2 and fewer than
\* 15 minutes left; and after a tick that left a credential with 15 minutes or
\* more alone, the interval elapses next while getCachedToken still accepts
\* that credential, so that the tick that follows attempts the renewal or
\* leaves it alone once more.
C38_RenewedBeforeRejected ==
    /\ [](obs.op = "tick"
          => ((run # <<>> /\ Top(run).fn = "performSilentAuth")
              <=> (now + 2 < store.tokenExpiry /\ store.tokenExpiry < now + 15)))
    /\ [][(/\ obs.op = "tick"
           /\ obs.cachedToken # NoToken
           /\ obs.tokenExpiry - obs.at >= 15
           /\ now' # now)
          => /\ store' = store
             /\ store.tokenExpiry = obs.tokenExpiry
             /\ getCachedToken(store, FALSE, now') = obs.cachedToken]_vars

\* C38 witness: a tick has attempted the renewal of a credential that had 15
\* minutes or more left at the tick before.
C38_Witness ==
    /\ obs.op = "renewed" /\ obs.by = "tokenRefreshTimer" /\ ~obs.ok
    /\ now >= 2 * tickInterval
    /\ store.tokenExpiry - (now - tickInterval) >= 15

\* C39: a success response is mapped to the same result whether it answers the
\* first send or a retry after a 401: a call that ends on a successful retried
\* response (silent-renewal path or interactive path) returns what the
\* first-response mapping returns for that method and that response.
C39_RetryMapsLikeFirst ==
    (/\ obs.op = "apiDone"
     /\ obs.fetches = 2
     /\ obs.path \in {"silent", "interactive"}
     /\ Ok(obs.retry))
    => /\ obs.k = firstResult(obs.req.method, obs.retry).k
       /\ obs.result = firstResult(obs.req.method, obs.retry).v

\* C40: every credential that a silent renewal installs as the current
\* credential (this.accessToken and the store) was granted to the request for
\* the management scope, scopes[0]: the step of handleTokenExpiry, of the
\* delayed refresh or of the refresh interval that installs what
\* performSilentAuth handed back (assigns it and calls cacheToken), installs a
\* token of the primary request.
C40_InstalledForManagementScope ==
    [][(/\ \/ At("handleTokenExpiry", "afterSilent")
           \/ At("bgRefresh", "afterSilent")
           \/ At("tokenRefreshTimer", "afterSilent")
        /\ ret.v.accessToken # NoToken
        /\ app'.accessToken = ret.v.accessToken
        /\ store'.accessToken = ret.v.accessToken
        /\ Len(tasks') = Len(tasks) + 1
        /\ Top(tasks'[Len(tasks')]).fn = "storage.set")
       => (obs.op = "silentAuth" /\ obs.scope = "mgmt")]_vars

\* the step after performSilentAuth returns is its caller's: no other step comes
\* between the answer and its installation
SilentAuthJustDone ==
    (run # <<>> /\ Top(run).pc = "afterSilent") => (obs.op = "silentAuth")

====
